---- MODULE Spec2Model ----
(***************************************************************************)
(* Data-acquisition pipeline of the Reddit search scraper: the per-IP      *)
(* rate limiter, the TTL search cache, the paginated post fetcher and the  *)
(* client-side fan-out aggregation of context search.                      *)
(***************************************************************************)
EXTENDS Integers, Sequences, FiniteSets, TLC

----------------------------------------------------------------------------
(* Bounds of the model *)

\* number of clock advances explored in one behaviour of the limiter
MaxTicks == 3

\* "no value" marker for optional fields (undefined / null in the source)
None == -1

----------------------------------------------------------------------------
(* Rate limiter: lib/rate-limiter (promptStore.ts:322-390) *)

\* new RateLimiter(2000, 1)
windowMs == 2000
maxRequests == 1

\* client identities (the ip argument of check)
IPs == {"ip1", "ip2"}

\* amounts by which Date.now() advances between two operations
RLSteps == {1, 1999, 2000, 20000}

VARIABLES
    now,        \* Date.now()
    ticks,      \* number of clock advances so far
    limits,     \* RateLimiter.limits : ip -> RateLimitEntry
    rlLast,     \* the last check: its ip, instant, result, the instant of the
                \* previous admitted check of that ip, the last hint given to
                \* that ip before, and the result without any cleanup
    admitLog,   \* per ip, the instants of its admitted checks, in order
    hints,      \* per ip, the instant t + retryAfter named by its last denial
                \* when it was not admitted since, None otherwise
    unswept     \* the limits map of the same checks when cleanup never runs

rlVars == <<limits, rlLast, admitLog, hints, unswept>>

\* effect and result of RateLimiter.check(ip) at Date.now() = t
RLCheckMutGt(lim, ip, t) ==
    IF ip \notin DOMAIN lim
    THEN [limits |-> lim @@ (ip :> [lastRequest |-> t, requestCount |-> 1]),
          allowed |-> TRUE, retryAfter |-> None]
    ELSE LET entry == lim[ip]
             elapsed == t - entry.lastRequest
         IN  IF elapsed > windowMs
             THEN [limits |-> [lim EXCEPT ![ip] = [lastRequest |-> t, requestCount |-> 1]],
                   allowed |-> TRUE, retryAfter |-> None]
             ELSE IF entry.requestCount < maxRequests
             THEN [limits |-> [lim EXCEPT ![ip].requestCount = @ + 1],
                   allowed |-> TRUE, retryAfter |-> None]
             ELSE [limits |-> lim, allowed |-> FALSE,
                   retryAfter |-> windowMs - elapsed]

RLCheckMutExtend(lim, ip, t) ==
    IF ip \notin DOMAIN lim
    THEN [limits |-> lim @@ (ip :> [lastRequest |-> t, requestCount |-> 1]),
          allowed |-> TRUE, retryAfter |-> None]
    ELSE LET entry == lim[ip]
             elapsed == t - entry.lastRequest
         IN  IF elapsed >= windowMs
             THEN [limits |-> [lim EXCEPT ![ip] = [lastRequest |-> t, requestCount |-> 1]],
                   allowed |-> TRUE, retryAfter |-> None]
             ELSE IF entry.requestCount < maxRequests
             THEN [limits |-> [lim EXCEPT ![ip].requestCount = @ + 1],
                   allowed |-> TRUE, retryAfter |-> None]
             ELSE [limits |-> [lim EXCEPT ![ip].lastRequest = t], allowed |-> FALSE,
                   retryAfter |-> windowMs - elapsed]

RLCheckMutFullWindow(lim, ip, t) ==
    IF ip \notin DOMAIN lim
    THEN [limits |-> lim @@ (ip :> [lastRequest |-> t, requestCount |-> 1]),
          allowed |-> TRUE, retryAfter |-> None]
    ELSE LET entry == lim[ip]
             elapsed == t - entry.lastRequest
         IN  IF elapsed >= windowMs
             THEN [limits |-> [lim EXCEPT ![ip] = [lastRequest |-> t, requestCount |-> 1]],
                   allowed |-> TRUE, retryAfter |-> None]
             ELSE IF entry.requestCount < maxRequests
             THEN [limits |-> [lim EXCEPT ![ip].requestCount = @ + 1],
                   allowed |-> TRUE, retryAfter |-> None]
             ELSE [limits |-> lim, allowed |-> FALSE,
                   retryAfter |-> windowMs]

RLCheck(lim, ip, t) ==
    IF ip \notin DOMAIN lim
    THEN [limits |-> lim @@ (ip :> [lastRequest |-> t, requestCount |-> 1]),
          allowed |-> TRUE, retryAfter |-> None]
    ELSE LET entry == lim[ip]
             elapsed == t - entry.lastRequest
         IN  IF elapsed >= windowMs
             THEN [limits |-> [lim EXCEPT ![ip] = [lastRequest |-> t, requestCount |-> 1]],
                   allowed |-> TRUE, retryAfter |-> None]
             ELSE IF entry.requestCount < maxRequests
             THEN [limits |-> [lim EXCEPT ![ip].requestCount = @ + 1],
                   allowed |-> TRUE, retryAfter |-> None]
             ELSE [limits |-> lim, allowed |-> FALSE,
                   retryAfter |-> windowMs - elapsed]

\* RateLimiter.cleanup() at Date.now() = t
RLCleanupMutShort(lim, t) ==
    LET cutoff == t - windowMs \div 10
        keep == {ip \in DOMAIN lim : ~(lim[ip].lastRequest < cutoff)}
    IN  [ip \in keep |-> lim[ip]]

RLCleanupMutEager(lim, t) ==
    LET cutoff == t - windowMs \div 2
        keep == {ip \in DOMAIN lim : ~(lim[ip].lastRequest < cutoff)}
    IN  [ip \in keep |-> lim[ip]]

RLCleanup(lim, t) ==
    LET cutoff == t - windowMs * 10
        keep == {ip \in DOMAIN lim : ~(lim[ip].lastRequest < cutoff)}
    IN  [ip \in keep |-> lim[ip]]

LastOf(s) == IF Len(s) = 0 THEN None ELSE s[Len(s)]

NoLast == [ip |-> "ip1", at |-> None, allowed |-> FALSE, retryAfter |-> None,
           prevAdmit |-> None, hint |-> None,
           plain |-> [allowed |-> FALSE, retryAfter |-> None]]

\* one call rateLimiter.check(ip)
Check(ip) ==
    LET r == RLCheck(limits, ip, now)
        u == RLCheck(unswept, ip, now)
    IN  /\ limits' = r.limits
        /\ rlLast' = [ip |-> ip, at |-> now, allowed |-> r.allowed,
                      retryAfter |-> r.retryAfter,
                      prevAdmit |-> LastOf(admitLog[ip]),
                      hint |-> hints[ip],
                      plain |-> [allowed |-> u.allowed,
                                 retryAfter |-> u.retryAfter]]
        /\ admitLog' = IF r.allowed
                       THEN [admitLog EXCEPT ![ip] = Append(@, now)]
                       ELSE admitLog
        /\ hints' = IF r.allowed
                    THEN [hints EXCEPT ![ip] = None]
                    ELSE [hints EXCEPT ![ip] = now + r.retryAfter]
        /\ unswept' = u.limits
        /\ UNCHANGED <<now, ticks>>

\* the setInterval callback of the limiter
RLSweep ==
    /\ limits' = RLCleanup(limits, now)
    /\ limits' # limits
    /\ UNCHANGED <<now, ticks, rlLast, admitLog, hints, unswept>>

\* time passes
RLTick ==
    /\ ticks < MaxTicks
    /\ \E d \in RLSteps : now' = now + d
    /\ ticks' = ticks + 1
    /\ UNCHANGED rlVars

----------------------------------------------------------------------------
(* Search cache: lib/cache (unnamed/part_012) *)

\* new SearchCache() : ttlMs = 5 * 60 * 1000
ttlMs == 300000

\* strings are sequences of one-character strings
Top == <<"t", "o", "p">>
Hot == <<"h", "o", "t">>
Sorts == {Top, Hot}

\* query texts: differing in case and surrounding blanks, and a distinct one
Queries == {<<"a">>, <<" ", "A", " ">>}

\* String.prototype.toLowerCase
LowerChar(c) == IF c = "A" THEN "a" ELSE IF c = "B" THEN "b" ELSE c
toLowerCase(s) == [i \in 1..Len(s) |-> LowerChar(s[i])]

\* String.prototype.trim
RECURSIVE TrimStart(_)
TrimStart(s) ==
    IF Len(s) > 0 /\ s[1] = " " THEN TrimStart(Tail(s)) ELSE s
RECURSIVE TrimEnd(_)
TrimEnd(s) ==
    IF Len(s) > 0 /\ s[Len(s)] = " " THEN TrimEnd(SubSeq(s, 1, Len(s) - 1)) ELSE s
trim(s) == TrimEnd(TrimStart(s))

\* SearchCache.key(query, sort) = `${query.toLowerCase().trim()}-${sort}`
key(query, sort) == trim(toLowerCase(query)) \o <<"-">> \o sort

\* posts of a response: identifier and upvotes
P1 == [id |-> 1, upvotes |-> 5]
P2 == [id |-> 2, upvotes |-> 5]
PostLists == {<<P1, P2>>, <<P2, P1>>}

\* Math.floor(age / 1000)
FloorSeconds(age) == age \div 1000

NoResponse == [posts |-> <<>>, cached |-> FALSE, cacheAge |-> None]

VARIABLES
    cache,      \* SearchCache.cache : key -> CacheEntry
    lastGet,    \* the last get: key, instant, the entry found, the result,
                \* and the last set on that key before it
    lastPut,    \* per key, the posts and instant of the last set, and the time
                \* bucket of the search that made it
    cacheTicks  \* number of clock advances so far

cacheVars == <<cache, lastGet, lastPut, cacheTicks>>

\* effect and result of SearchCache.get(query, sort) at Date.now() = t
CacheGetMutNoEvict(c, query, sort, t) ==
    LET k == key(query, sort)
    IN  IF k \notin DOMAIN c
        THEN [cache |-> c, hit |-> FALSE, data |-> NoResponse]
        ELSE LET entry == c[k]
                 age == t - entry.timestamp
             IN  IF age > ttlMs
                 THEN [cache |-> c, hit |-> FALSE, data |-> NoResponse]
                 ELSE [cache |-> c, hit |-> TRUE,
                       data |-> [entry.data EXCEPT !.cached = TRUE,
                                                   !.cacheAge = FloorSeconds(age)]]

CacheGetMutCachedAge(c, query, sort, t) ==
    LET k == key(query, sort)
    IN  IF k \notin DOMAIN c
        THEN [cache |-> c, hit |-> FALSE, data |-> NoResponse]
        ELSE LET entry == c[k]
                 age == t - entry.timestamp
             IN  IF age > ttlMs
                 THEN [cache |-> [x \in DOMAIN c \ {k} |-> c[x]],
                       hit |-> FALSE, data |-> NoResponse]
                 ELSE IF entry.data.cacheAge = None
                 THEN [cache |-> [c EXCEPT ![k].data.cacheAge = FloorSeconds(age)],
                       hit |-> TRUE,
                       data |-> [entry.data EXCEPT !.cached = TRUE,
                                                   !.cacheAge = FloorSeconds(age)]]
                 ELSE [cache |-> c, hit |-> TRUE,
                       data |-> [entry.data EXCEPT !.cached = TRUE]]

CacheGet(c, query, sort, t) ==
    LET k == key(query, sort)
    IN  IF k \notin DOMAIN c
        THEN [cache |-> c, hit |-> FALSE, data |-> NoResponse]
        ELSE LET entry == c[k]
                 age == t - entry.timestamp
             IN  IF age > ttlMs
                 THEN [cache |-> [x \in DOMAIN c \ {k} |-> c[x]],
                       hit |-> FALSE, data |-> NoResponse]
                 ELSE [cache |-> c, hit |-> TRUE,
                       data |-> [entry.data EXCEPT !.cached = TRUE,
                                                   !.cacheAge = FloorSeconds(age)]]

\* Map.set(k, v)
MapSet(m, k, v) == [x \in DOMAIN m \cup {k} |-> IF x = k THEN v ELSE m[x]]

\* SearchCache.set(query, sort, data) at Date.now() = t
CacheSetMutKeepOld(c, query, sort, data, t) ==
    LET k == key(query, sort)
    IN  IF k \in DOMAIN c
        THEN [c EXCEPT ![k].timestamp = t]
        ELSE MapSet(c, k, [data |-> [data EXCEPT !.cached = FALSE, !.cacheAge = 0],
                           timestamp |-> t])

CacheSet(c, query, sort, data, t) ==
    MapSet(c, key(query, sort),
           [data |-> [data EXCEPT !.cached = FALSE, !.cacheAge = 0],
            timestamp |-> t])

\* SearchCache.cleanup() at Date.now() = t
CacheCleanupMutAll(c, t) ==
    LET keep == {k \in DOMAIN c : ~(t - c[k].timestamp > 0)}
    IN  [k \in keep |-> c[k]]

CacheCleanup(c, t) ==
    LET keep == {k \in DOMAIN c : ~(t - c[k].timestamp > ttlMs)}
    IN  [k \in keep |-> c[k]]

Keys == {key(q, s) : q \in Queries, s \in Sorts}

NoEntry == [data |-> NoResponse, timestamp |-> None]

NoPrev == [at |-> None, age |-> None]

\* ghost record of one get
GetRecord(c, puts, last, query, sort, t) ==
    LET k == key(query, sort)
        r == CacheGet(c, query, sort, t)
    IN  [key |-> k, at |-> t,
         found |-> k \in DOMAIN c,
         entry |-> IF k \in DOMAIN c THEN c[k] ELSE NoEntry,
         hit |-> r.hit, data |-> r.data,
         presentAfter |-> k \in DOMAIN r.cache,
         after |-> IF k \in DOMAIN r.cache THEN r.cache[k] ELSE NoEntry,
         \* the previous get, when it hit this same entry
         prev |-> IF last.hit /\ last.key = k /\ k \in DOMAIN c
                        /\ last.after.timestamp = c[k].timestamp
                        /\ puts[k] = last.put
                  THEN [at |-> last.at, age |-> last.data.cacheAge]
                  ELSE NoPrev,
         put |-> puts[k]]

NoTime == ""

NoPut == [posts |-> <<>>, at |-> None, time |-> NoTime, ok |-> TRUE]

NoGet == [key |-> <<>>, at |-> None, found |-> FALSE, entry |-> NoEntry,
          hit |-> FALSE, data |-> NoResponse, presentAfter |-> FALSE,
          after |-> NoEntry, prev |-> NoPrev, put |-> NoPut]

\* amounts by which Date.now() advances between two cache operations
CacheSteps == {1500, 300000}
MaxCacheTicks == 3

\* one call searchCache.get(query, sort)
Get(query, sort) ==
    /\ cache' = CacheGet(cache, query, sort, now).cache
    /\ lastGet' = GetRecord(cache, lastPut, lastGet, query, sort, now)
    /\ UNCHANGED <<now, lastPut, cacheTicks>>

\* one call searchCache.set(query, sort, data)
Put(query, sort, posts) ==
    /\ cache' = CacheSet(cache, query, sort,
                         [posts |-> posts, cached |-> FALSE, cacheAge |-> None], now)
    /\ lastPut' = [lastPut EXCEPT ![key(query, sort)] =
                                [posts |-> posts, at |-> now, time |-> NoTime,
                                 ok |-> TRUE]]
    /\ UNCHANGED <<now, lastGet, cacheTicks>>

\* the setInterval callback of the cache
CacheSweep ==
    /\ cache' = CacheCleanup(cache, now)
    /\ cache' # cache
    /\ UNCHANGED <<now, lastGet, lastPut, cacheTicks>>

CacheTick ==
    /\ cacheTicks < MaxCacheTicks
    /\ \E d \in CacheSteps : now' = now + d
    /\ cacheTicks' = cacheTicks + 1
    /\ UNCHANGED <<cache, lastGet, lastPut>>

----------------------------------------------------------------------------
(* Plain search: GET /api/reddit, as section 2 and 6 of the design describe *)
(* it: cache, then on a miss rate limiter, fetch, cache fill, response.     *)

RequestIds == {1, 2}
MaxSearchTicks == 2

\* what a successful upstream fetch returns
Upstream == {<<P1, P2>>}

\* the two clients: each has its address, its spelling of the query and its
\* time bucket, and chooses the sort mode of every search it makes
ClientOf(r) ==
    IF r = 1 THEN [ip |-> "ip1", query |-> <<"a">>, time |-> "week"]
             ELSE [ip |-> "ip2", query |-> <<" ", "A", " ">>, time |-> "month"]

VARIABLES
    req         \* per request in flight: position, parameters, response

IdleReq == [pc |-> "idle", query |-> <<>>, sort |-> <<>>, time |-> NoTime,
            ip |-> "", priorFresh |-> FALSE, sawExpired |-> FALSE,
            keptStale |-> FALSE,
            fetched |-> FALSE, resp |-> NoResponse, servedTime |-> NoTime,
            retryAfter |-> None,
            \* its cache fill replaced an entry younger than the TTL
            replacedFresh |-> FALSE,
            \* its lookup missed; the limiter was called; it was admitted
            missed |-> FALSE, consulted |-> FALSE, admitted |-> FALSE,
            \* the limits map after the admission step equals the one before
            limitsKept |-> TRUE,
            \* keys its lookup removed from the cache, and whether every
            \* other entry stayed as it was
            evicted |-> {}, othersKept |-> TRUE]

\* searchPlain up to its first suspension: cache lookup, then admission
SearchStartMutFetchDenied(r, query, sort, time, ip) ==
    /\ req[r].pc = "idle"
    /\ LET k == key(query, sort)
           g == CacheGet(cache, query, sort, now)
           c == RLCheck(limits, ip, now)
           base == [IdleReq EXCEPT
                       !.query = query, !.sort = sort, !.time = time, !.ip = ip,
                       !.priorFresh = (lastPut[k].at # None
                                        /\ now - lastPut[k].at <= ttlMs),
                       !.sawExpired = (k \in DOMAIN cache
                                        /\ now - cache[k].timestamp > ttlMs),
                       !.keptStale = (k \in DOMAIN cache
                                        /\ now - cache[k].timestamp > ttlMs
                                        /\ k \in DOMAIN g.cache),
                       !.missed = ~g.hit,
                       !.evicted = DOMAIN cache \ DOMAIN g.cache,
                       !.othersKept = (/\ DOMAIN g.cache \subseteq DOMAIN cache
                                       /\ \A x \in DOMAIN g.cache :
                                              g.cache[x] = cache[x])]
       IN  /\ cache' = g.cache
           /\ IF g.hit
              THEN /\ req' = [req EXCEPT ![r] =
                                [base EXCEPT !.pc = "done", !.resp = g.data,
                                             !.servedTime = lastPut[k].time]]
                   /\ limits' = limits
              ELSE /\ limits' = c.limits
                   /\ req' = [req EXCEPT ![r] =
                                IF c.allowed
                                THEN [base EXCEPT !.pc = "fetching", !.fetched = TRUE,
                                                  !.consulted = TRUE,
                                                  !.admitted = TRUE,
                                                  !.limitsKept = (c.limits = limits)]
                                ELSE [base EXCEPT !.pc = "fetching", !.fetched = TRUE,
                                                  !.retryAfter = c.retryAfter,
                                                  !.consulted = TRUE,
                                                  !.limitsKept = (c.limits = limits)]]
    /\ UNCHANGED <<now, lastGet, lastPut, cacheTicks>>

SearchStart(r, query, sort, time, ip) ==
    /\ req[r].pc = "idle"
    /\ LET k == key(query, sort)
           g == CacheGet(cache, query, sort, now)
           c == RLCheck(limits, ip, now)
           base == [IdleReq EXCEPT
                       !.query = query, !.sort = sort, !.time = time, !.ip = ip,
                       !.priorFresh = (lastPut[k].at # None
                                        /\ now - lastPut[k].at <= ttlMs),
                       !.sawExpired = (k \in DOMAIN cache
                                        /\ now - cache[k].timestamp > ttlMs),
                       !.keptStale = (k \in DOMAIN cache
                                        /\ now - cache[k].timestamp > ttlMs
                                        /\ k \in DOMAIN g.cache),
                       !.missed = ~g.hit,
                       !.evicted = DOMAIN cache \ DOMAIN g.cache,
                       !.othersKept = (/\ DOMAIN g.cache \subseteq DOMAIN cache
                                       /\ \A x \in DOMAIN g.cache :
                                              g.cache[x] = cache[x])]
       IN  /\ cache' = g.cache
           /\ IF g.hit
              THEN /\ req' = [req EXCEPT ![r] =
                                [base EXCEPT !.pc = "done", !.resp = g.data,
                                             !.servedTime = lastPut[k].time]]
                   /\ limits' = limits
              ELSE /\ limits' = c.limits
                   /\ req' = [req EXCEPT ![r] =
                                IF c.allowed
                                THEN [base EXCEPT !.pc = "fetching", !.fetched = TRUE,
                                                  !.consulted = TRUE,
                                                  !.admitted = TRUE,
                                                  !.limitsKept = (c.limits = limits)]
                                ELSE [base EXCEPT !.pc = "denied",
                                                  !.retryAfter = c.retryAfter,
                                                  !.consulted = TRUE,
                                                  !.limitsKept = (c.limits = limits)]]
    /\ UNCHANGED <<now, lastGet, lastPut, cacheTicks>>

\* the cache fill of request r with the list the fetcher resolved with
FillAndRespond(r, posts, ok) ==
    LET data == [posts |-> posts, cached |-> FALSE, cacheAge |-> None]
        k == key(req[r].query, req[r].sort)
    IN  /\ cache' = CacheSet(cache, req[r].query, req[r].sort, data, now)
        /\ lastPut' = [lastPut EXCEPT ![k] =
                         [posts |-> posts, at |-> now, time |-> req[r].time,
                          ok |-> ok]]
        /\ req' = [req EXCEPT ![r].pc = "done", ![r].resp = data,
                              ![r].servedTime = req[r].time,
                              ![r].replacedFresh =
                                  (k \in DOMAIN cache
                                     /\ now - cache[k].timestamp <= ttlMs)]

\* the upstream fetch of request r returns: cache fill and response
SearchFetched(r, posts) ==
    /\ req[r].pc = "fetching"
    /\ FillAndRespond(r, posts, TRUE)
    /\ UNCHANGED <<now, limits, lastGet, cacheTicks>>

\* the upstream fails for the first page of request r: fetchRedditPosts
\* does not throw, it resolves with the empty list (part_011:176-184), and
\* the handler goes on to the cache fill and the response with it
SearchFailed(r) ==
    /\ req[r].pc = "fetching"
    /\ FillAndRespond(r, <<>>, FALSE)
    /\ UNCHANGED <<now, limits, lastGet, cacheTicks>>

\* the response of request r has been sent
SearchReturn(r) ==
    /\ req[r].pc \in {"done", "denied", "failed"}
    /\ req' = [req EXCEPT ![r] = IdleReq]
    /\ UNCHANGED <<now, limits, cache, lastGet, lastPut, cacheTicks>>

SearchCacheSweep ==
    /\ CacheSweep
    /\ UNCHANGED <<limits, req>>

SearchLimiterSweep ==
    /\ limits' = RLCleanup(limits, now)
    /\ limits' # limits
    /\ UNCHANGED <<now, cache, lastGet, lastPut, cacheTicks, req>>

SearchTick ==
    /\ cacheTicks < MaxSearchTicks
    /\ \E d \in CacheSteps : now' = now + d
    /\ cacheTicks' = cacheTicks + 1
    /\ UNCHANGED <<cache, lastGet, lastPut, limits, req>>

----------------------------------------------------------------------------
(* Post fetcher: lib/reddit fetchRedditPosts (unnamed/part_011:99-185) *)

\* const maxPages = 4
maxPages == 4
\* allPosts.length >= 100, slice(0, 100)
PostBudget == 100

\* upstream scores range over 0..MaxUpvotes
MaxUpvotes == 2
\* length of a long upstream page (the request asks for limit = 100)
LongPage == 60

\* upstream page sizes and first identifiers: pages can overlap
PageSizes == {0, 1, LongPage}
PageStarts == {1, 50}

\* 15 * 24 * 60 * 60 * 1000
FifteenDays == 1296000000

\* created_utc * 1000 of a child, counted from the wall-clock time at which
\* the fetch started: 15 days and 1 ms before, 15 days less 1 s before, or
\* one hour before
CreatedOf(id) ==
    IF id % 4 = 0 THEN 0 - FifteenDays - 1
    ELSE IF id % 4 = 1 THEN 0 - FifteenDays + 1000
    ELSE 0 - 3600000

\* the children of one upstream listing page: identifiers start..start+n-1;
\* bump shifts the scores, so an identifier can come back with another score
PageOf(start, n, bump) ==
    [i \in 1..n |->
        [id |-> start + i - 1,
         score |-> (start + i - 1 + bump) % (MaxUpvotes + 1),
         created |-> CreatedOf(start + i - 1)]]

\* time parameter of a fetch: a native bucket or the synthetic '15d'
FetchTimes == {"all", "15d"}

VARIABLES
    fetch       \* one fetchRedditPosts call: position, loop variables, result

\* requests counts the page requests made by this call and failedAt is the
\* number of the request that threw (0: none)
\* tParam is the t of the upstream request, waits the inter-page delays
\* taken so far, lastCount the children of the last page received (-1: none)
\* and fresh the number of children received so far that are not older than
\* 15 days at the time the fetch started
IdleFetch == [pc |-> "idle", time |-> "all", page |-> 0, after |-> FALSE,
              allPosts |-> <<>>, result |-> <<>>, requests |-> 0, failedAt |-> 0,
              tParam |-> "all", waits |-> <<>>, lastCount |-> None, fresh |-> 0]

\* the RedditPost pushed for a child (lines 155-164)
ToPost(child) == [id |-> child.id, upvotes |-> child.score,
                  created |-> child.created]

\* posts of s with upvotes v, in order
WithUpvotes(s, v) == SelectSeq(s, LAMBDA p : p.upvotes = v)

\* allPosts.sort((a, b) => b.upvotes - a.upvotes): stable, highest first
RECURSIVE SortFrom(_, _)
SortFrom(s, v) ==
    IF v < 0 THEN <<>> ELSE WithUpvotes(s, v) \o SortFrom(s, v - 1)

RECURSIVE SortUp(_, _)
SortUp(s, v) ==
    IF v > MaxUpvotes THEN <<>> ELSE WithUpvotes(s, v) \o SortUp(s, v + 1)

SortByUpvotesDescMutAsc(s) == SortUp(s, 0)

SortByUpvotesDesc(s) == SortFrom(s, MaxUpvotes)

\* Array.prototype.slice(0, n)
Slice(s, n) == SubSeq(s, 1, IF Len(s) < n THEN Len(s) ELSE n)

\* line 184
FinalResult(all) == Slice(SortByUpvotesDesc(all), PostBudget)

\* milliseconds from the start of the fetch to the processing of a page:
\* the inter-page delays taken before it (requests take no time here)
RECURSIVE SumOf(_)
SumOf(s) == IF Len(s) = 0 THEN 0 ELSE Head(s) + SumOf(Tail(s))

\* the loop body's push of the children that pass the '15d' filter, which
\* compares postTime with Date.now() - 15 days, Date.now() read per child
Accumulate(all, children, time, elapsed) ==
    LET kept == SelectSeq(children, LAMBDA c :
                    ~(time = "15d" /\ c.created < elapsed - FifteenDays))
    IN  all \o [i \in 1..Len(kept) |-> ToPost(kept[i])]

\* lines 108-111
TParam(time) == IF time = "15d" THEN "month" ELSE time

InterPageDelayMutShort(page, after) ==
    IF page < maxPages - 1 /\ after THEN 500 ELSE 0

\* lines 173-175: the delay before the next page, 0 when none is taken
InterPageDelay(page, after) ==
    IF page < maxPages - 1 /\ after THEN 1500 ELSE 0

\* fetchRedditPosts(keywords, sort, time) up to its first request
FetchStart(time) ==
    /\ fetch.pc = "idle"
    /\ fetch' = [IdleFetch EXCEPT !.pc = "paging", !.time = time,
                                  !.tParam = TParam(time)]

\* children received that a cutoff taken at the start of the fetch keeps
FreshCount(children) ==
    Len(SelectSeq(children, LAMBDA c : c.created >= 0 - FifteenDays))

FetchPageMutNoCursorStop(children, nextAfter) ==
    /\ fetch.pc = "paging"
    /\ LET acc == Accumulate(fetch.allPosts, children, fetch.time, SumOf(fetch.waits))
           seen == [fetch EXCEPT !.requests = @ + 1, !.lastCount = Len(children),
                                 !.fresh = @ + FreshCount(children)]
           delay == 1500
       IN  IF Len(children) = 0
           THEN fetch' = [seen EXCEPT !.pc = "done",
                                      !.result = FinalResult(fetch.allPosts)]
           ELSE IF Len(acc) >= PostBudget \/ fetch.page + 1 >= maxPages
           THEN fetch' = [seen EXCEPT !.pc = "done", !.allPosts = acc,
                                      !.after = nextAfter,
                                      !.result = FinalResult(acc)]
           ELSE fetch' = [seen EXCEPT !.page = @ + 1, !.allPosts = acc,
                                      !.after = nextAfter,
                                      !.waits = IF delay > 0 THEN Append(@, delay) ELSE @]

\* the request of the current page succeeds with these children and cursor
FetchPage(children, nextAfter) ==
    /\ fetch.pc = "paging"
    /\ LET acc == Accumulate(fetch.allPosts, children, fetch.time, SumOf(fetch.waits))
           seen == [fetch EXCEPT !.requests = @ + 1, !.lastCount = Len(children),
                                 !.fresh = @ + FreshCount(children)]
           delay == InterPageDelay(fetch.page, nextAfter)
       IN  IF Len(children) = 0
           THEN fetch' = [seen EXCEPT !.pc = "done",
                                      !.result = FinalResult(fetch.allPosts)]
           ELSE IF ~nextAfter \/ Len(acc) >= PostBudget \/ fetch.page + 1 >= maxPages
           THEN fetch' = [seen EXCEPT !.pc = "done", !.allPosts = acc,
                                      !.after = nextAfter,
                                      !.result = FinalResult(acc)]
           ELSE fetch' = [seen EXCEPT !.page = @ + 1, !.allPosts = acc,
                                      !.after = nextAfter,
                                      !.waits = IF delay > 0 THEN Append(@, delay) ELSE @]

FetchPageErrorMutDrop ==
    /\ fetch.pc = "paging"
    /\ fetch' = [fetch EXCEPT !.pc = "done", !.requests = @ + 1,
                              !.failedAt = fetch.requests + 1,
                              !.result = <<>>]

\* fetchWithRetry (or res.json()) throws for the current page: break
FetchPageError ==
    /\ fetch.pc = "paging"
    /\ fetch' = [fetch EXCEPT !.pc = "done", !.requests = @ + 1,
                              !.failedAt = fetch.requests + 1,
                              !.result = FinalResult(fetch.allPosts)]

\* the caller has taken the result
FetchReturn ==
    /\ fetch.pc = "done"
    /\ fetch' = IdleFetch

----------------------------------------------------------------------------
(* Fan-out aggregation of context search: useContextSearch.search          *)
(* (types/index.ts:107-119) over searchRedditBrowser (part_011:243-288)    *)

\* the intent step yields at most this many queries
MaxQueries == 3
\* posts one branch returns in the model
MaxBranchLen == 2
\* identifiers and scores of the posts the branches return
AggIds == {1, 2}
AggUpvotes == {0, 1}

AggPosts == [id : AggIds, upvotes : AggUpvotes]

\* the lists a branch can return: one listing does not repeat a child
BranchLists ==
    {s \in UNION {[1..n -> AggPosts] : n \in 0..MaxBranchLen} :
        \A i, j \in 1..Len(s) : i # j => s[i] # s[j]}

VARIABLES
    agg         \* one context search: position, branch outcomes, merged list

IdleAgg == [pc |-> "idle", n |-> 0,
            outcome |-> <<>>,      \* per branch: "pending", "ok" or "failed"
            nested |-> <<>>,       \* per branch: the posts it resolved with
            allPosts |-> <<>>, uniquePosts |-> <<>>,
            \* some branch settled after a branch of a later query
            inverted |-> FALSE,
            \* the step that ended the search ("none", "intent", "filter"),
            \* what the endpoint's call ended with, the endpoint's response
            step |-> "none", cause |-> "none",
            response |-> [status |-> 0, error |-> ""],
            \* the hook's final state: data (null or the posts) and error
            data |-> [isNull |-> TRUE, posts |-> <<>>], error |-> ""]

\* nestedPosts.flat()
RECURSIVE Flat(_)
Flat(nested) ==
    IF Len(nested) = 0 THEN <<>> ELSE Head(nested) \o Flat(Tail(nested))

\* index of the entry of m with this identifier, 0 when there is none
IndexOfId(m, id) ==
    IF \E i \in 1..Len(m) : m[i].id = id
    THEN CHOOSE i \in 1..Len(m) : m[i].id = id
    ELSE 0

\* new Map(entries): a key keeps the position of its first insertion and
\* takes the value of its last one
RECURSIVE MapOf(_, _)
MapOf(m, posts) ==
    IF Len(posts) = 0 THEN m
    ELSE LET p == Head(posts)
             i == IndexOfId(m, p.id)
         IN  MapOf(IF i = 0 THEN Append(m, p) ELSE [m EXCEPT ![i] = p],
                   Tail(posts))

\* Array.from(new Map(allPosts.map(p => [p.id, p])).values())
UniqueByIdMutKeepAll(allPosts) == allPosts

UniqueById(allPosts) == MapOf(<<>>, allPosts)

\* search(): the intent step returned n queries; the branches are started
AggStart(n) ==
    /\ agg.pc = "idle"
    /\ agg' = [IdleAgg EXCEPT !.pc = "fetching", !.n = n,
                              !.outcome = [i \in 1..n |-> "pending"],
                              !.nested = [i \in 1..n |-> <<>>]]

\* a branch of a later query than i has settled already
SettledAfter(i) == \E j \in (i + 1)..agg.n : agg.outcome[j] # "pending"

\* searchRedditBrowser of branch i gets a response and maps its children
BranchOk(i, posts) ==
    /\ agg.pc = "fetching"
    /\ i \in 1..agg.n
    /\ agg.outcome[i] = "pending"
    /\ agg' = [agg EXCEPT !.outcome[i] = "ok", !.nested[i] = posts,
                          !.inverted = @ \/ SettledAfter(i)]

\* searchRedditBrowser of branch i fails (fetch rejects, status not ok, or
\* invalid JSON): the catch returns []
BranchFailed(i) ==
    /\ agg.pc = "fetching"
    /\ i \in 1..agg.n
    /\ agg.outcome[i] = "pending"
    /\ agg' = [agg EXCEPT !.outcome[i] = "failed", !.nested[i] = <<>>,
                          !.inverted = @ \/ SettledAfter(i)]

\* the results of the branches that have settled, in query order
SettledOnly(nested, outcome) ==
    [i \in 1..Len(nested) |-> IF outcome[i] = "pending" THEN <<>> ELSE nested[i]]

AggJoinMutFirstSettled ==
    /\ agg.pc = "fetching"
    /\ \E i \in 1..agg.n : agg.outcome[i] # "pending"
    /\ agg' = [agg EXCEPT !.pc = "filtering",
                          !.allPosts = Flat(SettledOnly(agg.nested, agg.outcome)),
                          !.uniquePosts =
                              UniqueById(Flat(SettledOnly(agg.nested, agg.outcome)))]

\* Promise.all resolves: flatten and deduplicate, go on to filtering
AggJoin ==
    /\ agg.pc = "fetching"
    /\ \A i \in 1..agg.n : agg.outcome[i] # "pending"
    /\ agg' = [agg EXCEPT !.pc = "filtering",
                          !.allPosts = Flat(agg.nested),
                          !.uniquePosts = UniqueById(Flat(agg.nested))]

----------------------------------------------------------------------------
(* AI response handling: lib/ai.ts extractJSON, generateSearchQueries,     *)
(* filterPostsByContext                                                    *)

\* A completion is a sequence of tokens: braces and brackets, a code fence
\* ("F" for ```), a word of prose ("w"), number literals, string literals
\* ("sa", "sb") and object keys with their colon ("k0" for "0":).  JSON texts
\* are flat: a scalar, an array of scalars, an object of number entries.
NumTokens == {"0", "2", "6", "7", "9", "11"}
StrTokens == {"sa", "sb"}
KeyTokens == {"k0", "k1", "k2"}
ScalarTokens == NumTokens \cup StrTokens

NumOf(t) ==
    CASE t = "0" -> 0 [] t = "2" -> 2 [] t = "6" -> 6 [] t = "7" -> 7
      [] t = "9" -> 9 [] t = "11" -> 11 [] OTHER -> 0

\* the position index a key token names
IndexOfKey(k) == CASE k = "k0" -> 0 [] k = "k1" -> 1 [] k = "k2" -> 2 [] OTHER -> None

ParseFail == [kind |-> "fail", items |-> <<>>]
JsonNull == [kind |-> "null", items |-> <<>>]

\* JSON.parse(text): the value, or ParseFail where it throws
JSONParse(t) ==
    IF Len(t) = 1 /\ t[1] \in NumTokens THEN [kind |-> "number", items |-> t]
    ELSE IF Len(t) = 1 /\ t[1] \in StrTokens THEN [kind |-> "string", items |-> t]
    ELSE IF Len(t) >= 2 /\ t[1] = "[" /\ t[Len(t)] = "]"
            /\ \A i \in 2..(Len(t) - 1) : t[i] \in ScalarTokens
    THEN [kind |-> "array", items |-> SubSeq(t, 2, Len(t) - 1)]
    ELSE IF Len(t) >= 2 /\ t[1] = "{" /\ t[Len(t)] = "}" /\ Len(t) % 2 = 0
            /\ \A i \in 2..(Len(t) - 1) :
                 IF i % 2 = 0 THEN t[i] \in KeyTokens ELSE t[i] \in NumTokens
    THEN [kind |-> "object", items |-> SubSeq(t, 2, Len(t) - 1)]
    ELSE ParseFail

\* positions of a token in a text
Positions(t, tok) == {i \in 1..Len(t) : t[i] = tok}
MinOf(S) == CHOOSE x \in S : \A y \in S : x <= y
MaxOf(S) == CHOOSE x \in S : \A y \in S : x >= y

\* content.match(/```(?:json)?\s*\n?([\s\S]*?)\n?\s*```/)[1]: the text between
\* the first fence and the next one; <<>> when there is no match
CodeBlock(t) ==
    LET fs == Positions(t, "F")
    IN  IF Cardinality(fs) < 2 THEN <<>>
        ELSE LET i == MinOf(fs)
                 j == MinOf(fs \ {i})
             IN  SubSeq(t, i + 1, j - 1)

\* content.match(/\{[\s\S]*\}/) and content.match(/\[[\s\S]*\]/): from the
\* first opening token to the last closing one; <<>> when there is no match
Greedy(t, open, close) ==
    LET os == Positions(t, open)
        cs == Positions(t, close)
    IN  IF os = {} \/ cs = {} \/ MaxOf(cs) < MinOf(os) THEN <<>>
        ELSE SubSeq(t, MinOf(os), MaxOf(cs))

\* extractJSON(content)
extractJSON(content) ==
    LET direct == JSONParse(content)
        block == CodeBlock(content)
        fromBlock == JSONParse(block)
        obj == Greedy(content, "{", "}")
        fromObj == JSONParse(obj)
        arr == Greedy(content, "[", "]")
        fromArr == JSONParse(arr)
    IN  IF direct # ParseFail THEN direct
        ELSE IF block # <<>> /\ fromBlock # ParseFail THEN fromBlock
        ELSE IF obj # <<>> /\ fromObj # ParseFail THEN fromObj
        ELSE IF arr # <<>> /\ fromArr # ParseFail THEN fromArr
        ELSE JsonNull

\* the user's natural-language query, as one token
UserQuery == "uq"

\* generateSearchQueries: lines 255-257
PlanQueriesMutNoFallback(content) ==
    LET parsed == extractJSON(content)
        queries == IF parsed.kind = "array" THEN parsed.items ELSE <<>>
    IN  Slice(queries, 3)

PlanQueriesMutNoSlice(content) ==
    LET parsed == extractJSON(content)
    IN  IF parsed.kind = "array" THEN parsed.items ELSE <<UserQuery>>

PlanQueries(content) ==
    LET parsed == extractJSON(content)
        queries == IF parsed.kind = "array" THEN parsed.items ELSE <<UserQuery>>
    IN  Slice(queries, 3)

\* the posts handed to the filter: n posts, known by their position index
FilterInput(n) == [i \in 1..n |-> [pos |-> i - 1, relevanceScore |-> None]]

\* !scores : null and the number 0 are falsy
Falsy(parsed) ==
    \/ parsed.kind = "null"
    \/ parsed.kind = "number" /\ NumOf(parsed.items[1]) = 0

\* scores[String(index)]: the token found, "undefined" when there is none
ScoreLookup(parsed, index) ==
    IF parsed.kind = "object"
    THEN LET at == {i \in 1..Len(parsed.items) :
                        i % 2 = 1 /\ IndexOfKey(parsed.items[i]) = index}
         IN  IF at = {} THEN "undefined" ELSE parsed.items[MaxOf(at) + 1]
    ELSE IF parsed.kind = "array"
    THEN IF index + 1 <= Len(parsed.items) THEN parsed.items[index + 1] ELSE "undefined"
    ELSE "undefined"

\* scores[String(index)] || 0
RelevanceOf(parsed, index) ==
    LET v == ScoreLookup(parsed, index)
    IN  IF v \in NumTokens THEN NumOf(v)
        ELSE IF v \in StrTokens THEN None
        ELSE 0

\* posts of s with relevance v, in order
WithRelevance(s, v) == SelectSeq(s, LAMBDA p : p.relevanceScore = v)

\* .sort((a, b) => b.relevanceScore - a.relevanceScore): stable, highest first
RECURSIVE SortByRelevanceFrom(_, _)
SortByRelevanceFrom(s, v) ==
    IF v < 0 THEN <<>> ELSE WithRelevance(s, v) \o SortByRelevanceFrom(s, v - 1)

\* the largest number a completion of the model can hold
TopScore == MaxOf({NumOf(t) : t \in NumTokens})

\* filterPostsByContext: lines 304-319 (a string score compares false)
FilterPostsMutGt(posts, content) ==
    LET scores == extractJSON(content)
        scored == [i \in 1..Len(posts) |->
                     [posts[i] EXCEPT !.relevanceScore = RelevanceOf(scores, i - 1)]]
    IN  IF Falsy(scores) THEN Slice(posts, 20)
        ELSE SortByRelevanceFrom(SelectSeq(scored, LAMBDA p : p.relevanceScore > 6), TopScore)

FilterPosts(posts, content) ==
    LET scores == extractJSON(content)
        scored == [i \in 1..Len(posts) |->
                     [posts[i] EXCEPT !.relevanceScore = RelevanceOf(scores, i - 1)]]
    IN  IF Falsy(scores) THEN Slice(posts, 20)
        ELSE SortByRelevanceFrom(SelectSeq(scored, LAMBDA p : p.relevanceScore >= 6), TopScore)

\* all texts of at most n tokens over an alphabet
RECURSIVE TextsUpTo(_, _)
TextsUpTo(alphabet, n) ==
    IF n = 0 THEN {<<>>}
    ELSE LET shorter == TextsUpTo(alphabet, n - 1)
         IN  shorter \cup {Append(t, a) : t \in shorter, a \in alphabet}

\* bounds on the completions explored
MaxTextLen == 4
MaxArrayLen == 4
MaxEntries == 2

\* arbitrary short completions
ShortTexts == TextsUpTo({"{", "}", "[", "]", "F", "w", "9", "k0"}, MaxTextLen)

\* JSON arrays and objects as the service is asked to return them
ArrayTexts ==
    {<<"[">> \o a \o <<"]">> : a \in TextsUpTo({"sa", "sb", "9"}, MaxArrayLen)}
EntryTexts == {<<k, v>> : k \in KeyTokens, v \in {"2", "6", "7", "9", "11"}}
RECURSIVE EntryLists(_)
EntryLists(n) ==
    IF n = 0 THEN {<<>>}
    ELSE EntryLists(n - 1) \cup {l \o e : l \in EntryLists(n - 1), e \in EntryTexts}
ObjectTexts ==
    {<<"{">> \o l \o <<"}">> : l \in EntryLists(MaxEntries)}
        \cup {<<"{", "k0", "2", "k1", "9", "k2", "7", "}">>}

\* the service wraps its JSON in prose or fences
Prefixes == {<<>>, <<"w">>, <<"w", "F">>}
Suffixes == {<<>>, <<"w">>, <<"F", "w">>}
WrappedTexts ==
    {pre \o core \o post :
        pre \in Prefixes, core \in ArrayTexts \cup ObjectTexts, post \in Suffixes}

Completions == ShortTexts \cup WrappedTexts

\* numbers of posts handed to the filter
FilterSizes == {0, 3, 21}

VARIABLES
    ai          \* one call of the planner or of the filter: the completion
                \* received and the value returned

IdleAi == [op |-> "idle", content |-> <<>>, n |-> 0, queries |-> <<>>,
           filtered |-> <<>>]

\* generateSearchQueries(userQuery) receives this completion from callGroq
PlanRespond(content) ==
    /\ ai.op = "idle"
    /\ ai' = [IdleAi EXCEPT !.op = "plan", !.content = content,
                            !.queries = PlanQueries(content)]

\* filterPostsByContext(posts, userQuery) receives this completion
FilterRespond(n, content) ==
    /\ ai.op = "idle"
    /\ ai' = [IdleAi EXCEPT !.op = "filter", !.content = content, !.n = n,
                            !.filtered = FilterPosts(FilterInput(n), content)]

\* the value has been returned to the route handler
AiReturn ==
    /\ ai.op # "idle"
    /\ ai' = IdleAi

----------------------------------------------------------------------------
(* Retry executor: lib/reddit fetchWithRetry (unnamed/part_011:45-93) *)

\* maxRetries: 3 by default (list pages), 2 for getPostDetails
RetryBudgets == {3, 2}

\* what one fetch() attempt can end with: a response with a status, the
\* 10 s timeout (AbortError), or a network error
Statuses == {200, 404, 429, 503}
AttemptOutcomes ==
    [kind : {"response"}, status : Statuses]
        \cup {[kind |-> "abort", status |-> 0], [kind |-> "neterr", status |-> 0]}

\* res.ok
ResOk(status) == status >= 200 /\ status <= 299

\* Math.pow(2, attempt)
RECURSIVE Pow2(_)
Pow2(n) == IF n = 0 THEN 1 ELSE 2 * Pow2(n - 1)

VARIABLES
    retry       \* one fetchWithRetry call: position, attempt counter, and
                \* the outcomes and waits so far

IdleRetry == [pc |-> "idle", maxRetries |-> 0, attempt |-> 0,
              outcomes |-> <<>>, delays |-> <<>>]

\* what the loop body does with the outcome of attempt number `attempt`:
\* "return", "throw", or "wait" with a delay before the next attempt
AfterAttemptMutNoLimit(o, attempt, maxRetries) ==
    IF o.kind = "response" /\ ResOk(o.status)
    THEN [do |-> "return", delay |-> 0]
    ELSE IF o.kind = "response" /\ (o.status = 429 \/ o.status >= 500)
    THEN [do |-> "wait", delay |-> Pow2(attempt) * 1500]
    ELSE [do |-> "wait", delay |-> 2000]

AfterAttempt(o, attempt, maxRetries) ==
    IF o.kind = "response" /\ ResOk(o.status)
    THEN [do |-> "return", delay |-> 0]
    ELSE IF o.kind = "response"
            /\ (o.status = 429 \/ o.status >= 500) /\ attempt < maxRetries - 1
    THEN [do |-> "wait", delay |-> Pow2(attempt) * 1500]
    ELSE IF o.kind = "abort"
    \* timeout: wait 2 s and retry, or give up on the last attempt
    THEN IF attempt < maxRetries - 1
         THEN [do |-> "wait", delay |-> 2000]
         ELSE [do |-> "throw", delay |-> 0]
    \* the Error thrown for a bad status at line 71 and a network error both
    \* reach the catch: rethrown on the last attempt only, else wait 2 s
    ELSE IF attempt = maxRetries - 1
         THEN [do |-> "throw", delay |-> 0]
         ELSE [do |-> "wait", delay |-> 2000]

\* fetchWithRetry(url, options, maxRetries) is called
RetryStart(maxRetries) ==
    /\ retry.pc = "idle"
    /\ retry' = [IdleRetry EXCEPT !.pc = IF maxRetries > 0 THEN "attempting" ELSE "thrown",
                                  !.maxRetries = maxRetries]

\* the fetch() of the current attempt ends with outcome o
RetryAttempt(o) ==
    /\ retry.pc = "attempting"
    /\ LET a == AfterAttempt(o, retry.attempt, retry.maxRetries)
       IN  retry' = [retry EXCEPT
                        !.outcomes = Append(@, o),
                        !.pc = CASE a.do = "return" -> "returned"
                                 [] a.do = "throw" -> "thrown"
                                 [] OTHER -> "waiting",
                        !.delays = IF a.do = "wait" THEN Append(@, a.delay) ELSE @]

\* the setTimeout of the wait fires: next iteration of the loop
RetryWaited ==
    /\ retry.pc = "waiting"
    /\ retry' = [retry EXCEPT
                    !.attempt = @ + 1,
                    !.pc = IF retry.attempt + 1 < retry.maxRetries
                           THEN "attempting" ELSE "thrown"]

\* the caller has the response or the error
RetryDone ==
    /\ retry.pc \in {"returned", "thrown"}
    /\ retry' = IdleRetry

----------------------------------------------------------------------------
(* One fetchRedditPosts call over fetchWithRetry: the upstream requests it *)
(* makes (unnamed/part_011:45-93, 113-185)                                 *)

\* fetchWithRetry(url, options): maxRetries = 3 by default
ListRetries == 3

VARIABLES
    upstream    \* the fetch() calls made so far by the fetchRedditPosts call,
                \* and the attempt number of the fetchWithRetry in progress

NoUpstream == [total |-> 0, attempt |-> 0]

\* fetchRedditPosts is called
UpstreamStart(time) ==
    /\ FetchStart(time)
    /\ upstream' = NoUpstream

\* one fetch() of the current page ends with outcome o; when fetchWithRetry
\* returns the response, res.json() yields these children and cursor, or
\* throws (parses = FALSE)
PageAttemptMutFourTries(o, children, nextAfter, parses) ==
    /\ fetch.pc = "paging"
    /\ LET a == AfterAttempt(o, upstream.attempt, ListRetries + 1)
           ended == [total |-> upstream.total + 1, attempt |-> 0]
       IN  IF a.do = "return"
           THEN /\ IF parses THEN FetchPage(children, nextAfter) ELSE FetchPageError
                /\ upstream' = ended
           ELSE IF a.do = "throw" \/ upstream.attempt + 1 >= ListRetries + 1
           THEN /\ FetchPageError
                /\ upstream' = ended
           ELSE /\ fetch' = fetch
                /\ upstream' = [total |-> upstream.total + 1,
                                attempt |-> upstream.attempt + 1]

PageAttempt(o, children, nextAfter, parses) ==
    /\ fetch.pc = "paging"
    /\ LET a == AfterAttempt(o, upstream.attempt, ListRetries)
           ended == [total |-> upstream.total + 1, attempt |-> 0]
       IN  IF a.do = "return"
           THEN /\ IF parses THEN FetchPage(children, nextAfter) ELSE FetchPageError
                /\ upstream' = ended
           ELSE IF a.do = "throw" \/ upstream.attempt + 1 >= ListRetries
           THEN /\ FetchPageError
                /\ upstream' = ended
           ELSE /\ fetch' = fetch
                /\ upstream' = [total |-> upstream.total + 1,
                                attempt |-> upstream.attempt + 1]

----------------------------------------------------------------------------
(* Post details: getPostDetails (unnamed/part_011:190-237) *)

\* comments kept for one post
MaxComments == 10
\* children of the short threads the model enumerates
MaxChildren == 2
\* length of the long threads (more than MaxComments replies)
LongThread == 12

\* child.data.body: two texts, the two tombstones, and a missing body
Bodies == {"x", "y", "[deleted]", "[removed]", ""}
\* child.kind: a comment or the "load more" stub
Kinds == {"t1", "more"}
Children == [kind : Kinds, body : Bodies]

\* long threads: texts alternate, with tombstones at the given positions
LongThreadOf(tombs) ==
    [i \in 1..LongThread |->
        [kind |-> "t1",
         body |-> IF i \in tombs THEN "[deleted]"
                  ELSE IF i % 2 = 1 THEN "x" ELSE "y"]]

Threads ==
    UNION {[1..n -> Children] : n \in 0..MaxChildren}
        \cup {LongThreadOf({}), LongThreadOf({2}), LongThreadOf({1, 2, 3})}

\* what res.json() yields: null, a non-array, an array shorter than 2, an
\* array whose second element has no data.children, or a comment listing
DetailBodies ==
    {[shape |-> sh, children |-> <<>>] :
        sh \in {"null", "object", "short", "nolisting"}}
        \cup {[shape |-> "thread", children |-> t] : t \in Threads}

\* the loop of lines 220-230 from child i on, with the comments so far
RECURSIVE CollectMutNoFilter(_, _, _)
CollectMutNoFilter(children, i, comments) ==
    IF i > Len(children) THEN comments
    ELSE LET c == children[i]
             next == IF c.kind = "t1" /\ c.body # ""
                     THEN Append(comments, c.body) ELSE comments
         IN  IF Len(next) >= MaxComments THEN next
             ELSE CollectMutNoFilter(children, i + 1, next)

RECURSIVE Collect(_, _, _)
Collect(children, i, comments) ==
    IF i > Len(children) THEN comments
    ELSE LET c == children[i]
             next == IF c.kind = "t1" /\ c.body # ""
                        /\ c.body # "[deleted]" /\ c.body # "[removed]"
                     THEN Append(comments, c.body) ELSE comments
         IN  IF Len(next) >= MaxComments THEN next
             ELSE Collect(children, i + 1, next)

\* comments.join('\n\n'): the bodies with a separator between neighbours
RECURSIVE Join(_)
Join(comments) ==
    IF Len(comments) = 0 THEN <<>>
    ELSE IF Len(comments) = 1 THEN <<comments[1]>>
    ELSE <<comments[1], "\n\n">> \o Join(Tail(comments))

VARIABLES
    detail      \* one getPostDetails call: position, the body it received,
                \* the comments it kept and the string it returns

IdleDetail == [pc |-> "idle", failed |-> FALSE,
               body |-> [shape |-> "null", children |-> <<>>],
               comments |-> <<>>, result |-> <<>>]

\* getPostDetails(permalink) up to its request
DetailStart ==
    /\ detail.pc = "idle"
    /\ detail' = [IdleDetail EXCEPT !.pc = "requesting"]

\* fetchWithRetry (or res.json()) throws: the catch returns ''
DetailFailed ==
    /\ detail.pc = "requesting"
    /\ detail' = [detail EXCEPT !.pc = "done", !.failed = TRUE, !.result = <<>>]

\* the request succeeds with this body
DetailFetched(body) ==
    /\ detail.pc = "requesting"
    /\ LET comments == IF body.shape = "thread"
                       THEN Collect(body.children, 1, <<>>) ELSE <<>>
       IN  detail' = [detail EXCEPT !.pc = "done", !.body = body,
                                    !.comments = comments,
                                    !.result = Join(comments)]

\* the caller has the string
DetailReturn ==
    /\ detail.pc = "done"
    /\ detail' = IdleDetail

----------------------------------------------------------------------------
(* Context-search endpoints (app/api/context/intent, filter: route.ts) and *)
(* the end of useContextSearch.search (types/index.ts:121-162)             *)

\* what a call of an endpoint can meet: an unreadable request body, no API
\* key, a non-2xx answer of Groq, a rejected fetch, or a completion
RouteCauses == {"badbody", "nokey", "upstream", "neterr"}
ScoringCompletions ==
    {<<"w">>, <<"9">>, <<"{", "k0", "9", "}">>, <<"{", "k0", "2", "k1", "7", "}">>}
RouteOutcomes ==
    {[cause |-> c, content |-> <<>>] : c \in RouteCauses}
        \cup {[cause |-> "completion", content |-> t] : t \in ScoringCompletions}

\* callGroq: the Error it throws, or the completion it returns
callGroq(o) ==
    IF o.cause = "nokey"
    THEN [threw |-> TRUE, message |-> "Missing GROQ_API_KEY", content |-> <<>>]
    ELSE IF o.cause = "upstream"
    THEN [threw |-> TRUE, message |-> "Groq API error", content |-> <<>>]
    ELSE IF o.cause = "neterr"
    THEN [threw |-> TRUE, message |-> "fetch failed", content |-> <<>>]
    ELSE [threw |-> FALSE, message |-> "", content |-> o.content]

\* POST /api/context/intent: every throw ends in the same catch
IntentRoute(o) ==
    IF o.cause = "badbody" \/ callGroq(o).threw
    THEN [status |-> 500, error |-> "Failed to analyze search intent."]
    ELSE [status |-> 200, error |-> ""]

\* POST /api/context/filter: every throw ends in the same catch
FilterRoute(o) ==
    IF o.cause = "badbody" \/ callGroq(o).threw
    THEN [status |-> 500, error |-> "Failed to filter posts."]
    ELSE [status |-> 200, error |-> ""]

\* filteredPosts of a 200 answer: filterPostsByContext over the posts sent
FilteredOf(posts, content) ==
    LET picked == FilterPosts(FilterInput(Len(posts)), content)
    IN  [i \in 1..Len(picked) |-> posts[picked[i].pos + 1]]

\* search(): the intent request is not answered with a 2xx status
AggIntentFailed(o) ==
    /\ agg.pc = "idle"
    /\ IntentRoute(o).status # 200
    /\ agg' = [IdleAgg EXCEPT !.pc = "finished", !.step = "intent",
                              !.cause = o.cause, !.response = IntentRoute(o),
                              !.error = "Failed to analyze search intent"]

\* the filter request is answered: lines 124-161; the locals of search()
\* end with it, the hook's state keeps data and error
AggFilter(o) ==
    /\ agg.pc = "filtering"
    /\ LET res == FilterRoute(o)
       IN  IF res.status = 200
           THEN agg' = [IdleAgg EXCEPT
                           !.pc = "finished", !.step = "filter",
                           !.cause = o.cause, !.response = res,
                           !.data = [isNull |-> FALSE,
                                     posts |-> FilteredOf(agg.uniquePosts, o.content)]]
           ELSE agg' = [IdleAgg EXCEPT
                           !.pc = "finished", !.step = "filter",
                           !.cause = o.cause, !.response = res,
                           !.error = "Failed to filter results"]

\* the search has ended; the hook is ready for the next one
AggReturn ==
    /\ agg.pc = "finished"
    /\ agg' = IdleAgg

----------------------------------------------------------------------------
(* The hook's state under overlapping calls of search(): useContextSearch, *)
(* client-side pipeline version (types/index.ts:68-163)                    *)

\* calls of search() in one run
MaxInvocations == 3

VARIABLES
    hook        \* the React state of useContextSearch and, per call of
                \* search(), the await it is suspended at

\* data and errorOf name the call whose result or error is recorded (0: null)
IdleHookState == [isLoading |-> FALSE, status |-> "idle", data |-> 0,
                  error |-> "", errorOf |-> 0]

InitHook == [state |-> IdleHookState, started |-> 0,
             pc |-> [k \in 1..MaxInvocations |-> "none"]]

\* search() is called: line 82 and the intent request
HookSearch ==
    /\ hook.started < MaxInvocations
    /\ hook' = [hook EXCEPT
                   !.started = @ + 1,
                   !.pc[hook.started + 1] = "analyzing",
                   !.state = [@ EXCEPT !.isLoading = TRUE, !.status = "analyzing",
                                       !.error = "", !.errorOf = 0]]

\* the final setState of call k with a result (lines 140-152)
FinishOk(k) ==
    [isLoading |-> FALSE, status |-> "idle", data |-> k,
     error |-> "", errorOf |-> 0]

\* the setState of the catch of call k (lines 156-161)
FinishError(k, message) ==
    [isLoading |-> FALSE, status |-> "idle", data |-> 0,
     error |-> message, errorOf |-> k]

\* the intent request of call k is answered with queries: line 108
HookIntentOk(k) ==
    /\ hook.pc[k] = "analyzing"
    /\ hook' = [hook EXCEPT !.pc[k] = "fetching",
                            !.state = [@ EXCEPT !.status = "fetching"]]

\* the intent request of call k fails or is not ok: the catch
HookIntentFailed(k) ==
    /\ hook.pc[k] = "analyzing"
    /\ hook' = [hook EXCEPT !.pc[k] = "finished",
                            !.state = FinishError(k, "Failed to analyze search intent")]

\* Promise.all of call k resolves: line 122
HookFetched(k) ==
    /\ hook.pc[k] = "fetching"
    /\ hook' = [hook EXCEPT !.pc[k] = "filtering",
                            !.state = [@ EXCEPT !.status = "filtering"]]

\* the filter request of call k is answered with the filtered posts
HookFilterOk(k) ==
    /\ hook.pc[k] = "filtering"
    /\ hook' = [hook EXCEPT !.pc[k] = "finished", !.state = FinishOk(k)]

\* the filter request of call k fails or is not ok: the catch
HookFilterFailed(k) ==
    /\ hook.pc[k] = "filtering"
    /\ hook' = [hook EXCEPT !.pc[k] = "finished",
                            !.state = FinishError(k, "Failed to filter results")]

----------------------------------------------------------------------------
(* useContextSearch, orchestration-route version with simulated progress   *)
(* (types/index.ts:196-278)                                                *)

\* calls of search() in one run
MaxProgressCalls == 3

\* what the orchestration request is answered with
ProgressResponses == {200, 429, 504, 500}

VARIABLES
    progress    \* the React state, the requests in flight, and the pending
                \* timers: batches with both timers pending, batches with
                \* only the 2000 ms timer pending

InitProgress == [state |-> [isLoading |-> FALSE, status |-> "idle",
                            hasData |-> FALSE, error |-> ""],
                 started |-> 0, awaiting |-> 0, both |-> 0, late |-> 0]

\* search(query): lines 207-223
ProgressSearch ==
    /\ progress.started < MaxProgressCalls
    /\ progress' = [progress EXCEPT
                       !.started = @ + 1, !.awaiting = @ + 1,
                       !.state = [@ EXCEPT !.isLoading = TRUE,
                                           !.status = "analyzing", !.error = ""]]

\* the message of the Error thrown for a response status (lines 229-242)
ProgressError(status) ==
    IF status = 429 THEN "Too many requests"
    ELSE IF status = 504 THEN "Search timed out"
    ELSE "Search failed"

\* the response arrives: both timers are set (lines 226-227), then the
\* result or the error is recorded (lines 246-269)
ProgressRespond(status) ==
    /\ progress.awaiting > 0
    /\ progress' = [progress EXCEPT
                       !.awaiting = @ - 1, !.both = @ + 1,
                       !.state = IF status = 200
                                 THEN [isLoading |-> FALSE, status |-> "completed",
                                       hasData |-> TRUE, error |-> ""]
                                 ELSE [isLoading |-> FALSE, status |-> "idle",
                                       hasData |-> FALSE,
                                       error |-> ProgressError(status)]]

\* the 800 ms timer of a batch fires
ProgressTimerFetching ==
    /\ progress.both > 0
    /\ progress' = [progress EXCEPT !.both = @ - 1, !.late = @ + 1,
                                    !.state = [@ EXCEPT !.status = "fetching"]]

\* the 2000 ms timer of a batch fires
ProgressTimerFiltering ==
    /\ progress.late > 0
    /\ progress' = [progress EXCEPT !.late = @ - 1,
                                    !.state = [@ EXCEPT !.status = "filtering"]]

\* reset(): line 273-275
ProgressReset ==
    /\ progress.state # InitProgress.state
    /\ progress' = [progress EXCEPT !.state = InitProgress.state]

extraVars == <<ai, retry, detail, hook, progress, upstream>>

vars == <<now, ticks, limits, rlLast, admitLog, hints, unswept, cache, lastGet, lastPut, cacheTicks, req,
          fetch, agg, extraVars>>

Init ==
    /\ now = 0
    /\ ticks = 0
    /\ limits = <<>>
    /\ rlLast = NoLast
    /\ admitLog = [ip \in IPs |-> <<>>]
    /\ hints = [ip \in IPs |-> None]
    /\ unswept = <<>>
    /\ cache = <<>>
    /\ lastGet = NoGet
    /\ lastPut = [k \in Keys |-> NoPut]
    /\ cacheTicks = 0
    /\ req = [r \in RequestIds |-> IdleReq]
    /\ fetch = IdleFetch
    /\ agg = IdleAgg
    /\ ai = IdleAi
    /\ retry = IdleRetry
    /\ detail = IdleDetail
    /\ hook = InitHook
    /\ progress = InitProgress
    /\ upstream = NoUpstream

RLNext ==
    \/ \E ip \in IPs : Check(ip) /\ UNCHANGED <<cacheVars, req, fetch, agg, extraVars>>
    \/ RLSweep /\ UNCHANGED <<cacheVars, req, fetch, agg, extraVars>>
    \/ RLTick /\ UNCHANGED <<cacheVars, req, fetch, agg, extraVars>>

CacheNext ==
    \/ \E q \in Queries, s \in Sorts : Get(q, s) /\ UNCHANGED <<ticks, rlVars, req, fetch, agg, extraVars>>
    \/ \E q \in Queries, s \in Sorts, ps \in PostLists :
            Put(q, s, ps) /\ UNCHANGED <<ticks, rlVars, req, fetch, agg, extraVars>>
    \/ CacheSweep /\ UNCHANGED <<ticks, rlVars, req, fetch, agg, extraVars>>
    \/ CacheTick /\ UNCHANGED <<ticks, rlVars, req, fetch, agg, extraVars>>

SpecRL == Init /\ [][RLNext]_vars

SpecCache == Init /\ [][CacheNext]_vars

SearchNext ==
    \/ \E r \in RequestIds, s \in Sorts :
            SearchStart(r, ClientOf(r).query, s, ClientOf(r).time, ClientOf(r).ip) /\ UNCHANGED <<ticks, rlLast, admitLog, hints, unswept, fetch, agg, extraVars>>
    \/ \E r \in RequestIds, ps \in Upstream :
            SearchFetched(r, ps) /\ UNCHANGED <<ticks, rlLast, admitLog, hints, unswept, fetch, agg, extraVars>>
    \/ \E r \in RequestIds : SearchFailed(r) /\ UNCHANGED <<ticks, rlLast, admitLog, hints, unswept, fetch, agg, extraVars>>
    \/ \E r \in RequestIds : SearchReturn(r) /\ UNCHANGED <<ticks, rlLast, admitLog, hints, unswept, fetch, agg, extraVars>>
    \/ SearchCacheSweep /\ UNCHANGED <<ticks, rlLast, admitLog, hints, unswept, fetch, agg, extraVars>>
    \/ SearchLimiterSweep /\ UNCHANGED <<ticks, rlLast, admitLog, hints, unswept, fetch, agg, extraVars>>
    \/ SearchTick /\ UNCHANGED <<ticks, rlLast, admitLog, hints, unswept, fetch, agg, extraVars>>

SpecSearch == Init /\ [][SearchNext]_vars

otherThanFetch == <<now, ticks, rlVars, cacheVars, req, agg, extraVars>>

FetchNext ==
    \/ \E tm \in FetchTimes : FetchStart(tm) /\ UNCHANGED otherThanFetch
    \/ \E st \in PageStarts, n \in PageSizes, b \in {0, 1}, a \in BOOLEAN :
            FetchPage(PageOf(st, n, b), a) /\ UNCHANGED otherThanFetch
    \/ FetchPageError /\ UNCHANGED otherThanFetch
    \/ FetchReturn /\ UNCHANGED otherThanFetch

SpecFetch == Init /\ [][FetchNext]_vars

otherThanUpstream ==
    <<now, ticks, rlVars, cacheVars, req, agg, ai, retry, detail, hook, progress>>

\* the steps of a call in progress: every fetch() answers or times out
PageStep ==
    \E o \in AttemptOutcomes, n \in PageSizes, a \in BOOLEAN, parses \in BOOLEAN :
        PageAttempt(o, PageOf(1, n, 0), a, parses) /\ UNCHANGED otherThanUpstream

UpstreamNext ==
    \/ \E tm \in FetchTimes : UpstreamStart(tm) /\ UNCHANGED otherThanUpstream
    \/ PageStep
    \/ FetchReturn /\ UNCHANGED <<upstream, otherThanUpstream>>

\* the awaited fetch() and setTimeout promises of a call in progress settle
SpecUpstream == Init /\ [][UpstreamNext]_vars /\ WF_vars(PageStep)

otherThanAgg == <<now, ticks, rlVars, cacheVars, req, fetch, extraVars>>

AggNext ==
    \/ \E n \in 0..MaxQueries : AggStart(n) /\ UNCHANGED otherThanAgg
    \/ \E i \in 1..MaxQueries, ps \in BranchLists :
            BranchOk(i, ps) /\ UNCHANGED otherThanAgg
    \/ \E i \in 1..MaxQueries : BranchFailed(i) /\ UNCHANGED otherThanAgg
    \/ AggJoin /\ UNCHANGED otherThanAgg
    \/ \E o \in RouteOutcomes : AggIntentFailed(o) /\ UNCHANGED otherThanAgg
    \/ agg.pc = "filtering" /\ \E o \in RouteOutcomes :
            AggFilter(o) /\ UNCHANGED otherThanAgg
    \/ AggReturn /\ UNCHANGED otherThanAgg

SpecAgg == Init /\ [][AggNext]_vars

otherThanAi == <<now, ticks, rlVars, cacheVars, req, fetch, agg, retry, detail, hook, progress, upstream>>

AiNext ==
    \/ ai.op = "idle" /\ \E c \in Completions :
            PlanRespond(c) /\ UNCHANGED otherThanAi
    \/ ai.op = "idle" /\ \E n \in FilterSizes, c \in Completions :
            FilterRespond(n, c) /\ UNCHANGED otherThanAi
    \/ AiReturn /\ UNCHANGED otherThanAi

SpecAi == Init /\ [][AiNext]_vars

otherThanRetry == <<now, ticks, rlVars, cacheVars, req, fetch, agg, ai, detail, hook, progress, upstream>>

RetryNext ==
    \/ \E m \in RetryBudgets : RetryStart(m) /\ UNCHANGED otherThanRetry
    \/ \E o \in AttemptOutcomes : RetryAttempt(o) /\ UNCHANGED otherThanRetry
    \/ RetryWaited /\ UNCHANGED otherThanRetry
    \/ RetryDone /\ UNCHANGED otherThanRetry

SpecRetry == Init /\ [][RetryNext]_vars

otherThanDetail == <<now, ticks, rlVars, cacheVars, req, fetch, agg, ai, retry, hook, progress, upstream>>

DetailNext ==
    \/ DetailStart /\ UNCHANGED otherThanDetail
    \/ DetailFailed /\ UNCHANGED otherThanDetail
    \/ detail.pc = "requesting" /\ \E b \in DetailBodies :
            DetailFetched(b) /\ UNCHANGED otherThanDetail
    \/ DetailReturn /\ UNCHANGED otherThanDetail

SpecDetail == Init /\ [][DetailNext]_vars

otherThanHook ==
    <<now, ticks, rlVars, cacheVars, req, fetch, agg, ai, retry, detail, progress, upstream>>

HookNext ==
    \/ HookSearch /\ UNCHANGED otherThanHook
    \/ \E k \in 1..MaxInvocations : HookIntentOk(k) /\ UNCHANGED otherThanHook
    \/ \E k \in 1..MaxInvocations : HookIntentFailed(k) /\ UNCHANGED otherThanHook
    \/ \E k \in 1..MaxInvocations : HookFetched(k) /\ UNCHANGED otherThanHook
    \/ \E k \in 1..MaxInvocations : HookFilterOk(k) /\ UNCHANGED otherThanHook
    \/ \E k \in 1..MaxInvocations : HookFilterFailed(k) /\ UNCHANGED otherThanHook

SpecHook == Init /\ [][HookNext]_vars

otherThanProgress ==
    <<now, ticks, rlVars, cacheVars, req, fetch, agg, ai, retry, detail, hook, upstream>>

ProgressNext ==
    \/ ProgressSearch /\ UNCHANGED otherThanProgress
    \/ \E st \in ProgressResponses :
            ProgressRespond(st) /\ UNCHANGED otherThanProgress
    \/ ProgressTimerFetching /\ UNCHANGED otherThanProgress
    \/ ProgressTimerFiltering /\ UNCHANGED otherThanProgress
    \/ ProgressReset /\ UNCHANGED otherThanProgress

SpecProgress == Init /\ [][ProgressNext]_vars

----------------------------------------------------------------------------
(* Claims on the rate limiter *)

\* C1: with W = 2000 and N = 1, a check made less than W after the
\* identity's last admitted check is denied with retryAfter = W - elapsed,
\* which lies in 1..2000; a check made W or more after it is admitted.
C1_WindowDenyThenAdmit ==
    (rlLast.at # None /\ rlLast.prevAdmit # None) =>
        LET elapsed == rlLast.at - rlLast.prevAdmit
        IN  /\ elapsed < windowMs =>
                /\ ~rlLast.allowed
                /\ rlLast.retryAfter = windowMs - elapsed
                /\ rlLast.retryAfter > 0
                /\ rlLast.retryAfter <= 2000
            /\ elapsed >= windowMs => rlLast.allowed

\* an identity admitted, admitted again exactly W later, and then denied
\* 1999 ms after that with retryAfter = 1
C1_Witness ==
    /\ rlLast.at # None /\ rlLast.prevAdmit # None
    /\ ~rlLast.allowed
    /\ rlLast.retryAfter = 1
    /\ LET log == admitLog[rlLast.ip]
       IN  Len(log) >= 2 /\ log[Len(log)] - log[Len(log) - 1] = windowMs

\* C2: whatever the interleaving of checks, sweeps and clock advances, two
\* admitted checks of one identity are at least 2000 ms apart.
C2_AdmitsSpaced ==
    \A ip \in IPs :
        \A i, j \in 1..Len(admitLog[ip]) :
            i < j => admitLog[ip][j] - admitLog[ip][i] >= 2000

\* an identity was swept out of the map and admitted again afterwards
C2_Witness ==
    \E ip \in IPs :
        /\ Len(admitLog[ip]) >= 2
        /\ ip \notin DOMAIN limits
        /\ \E other \in IPs : other # ip /\ Len(admitLog[other]) >= 1

----------------------------------------------------------------------------
(* Claims on the search cache *)

\* C6: a get made after set(key, posts), with no later set on that key and
\* no more than the TTL after it, is a hit that returns exactly the stored
\* posts in the stored order, tagged cached = true.
C6_RoundTrip ==
    (lastGet.at # None /\ lastGet.put.at # None
        /\ lastGet.at - lastGet.put.at <= ttlMs) =>
            /\ lastGet.hit
            /\ lastGet.data.posts = lastGet.put.posts
            /\ lastGet.data.cached = TRUE

\* a hit on an entry that was overwritten with the other post order and read
\* back through a differently spelled query, after time has passed
C6_Witness ==
    /\ lastGet.at # None /\ lastGet.hit
    /\ lastGet.data.posts = <<P2, P1>>
    /\ lastGet.data.cacheAge >= 1
    /\ lastGet.put.at > 0
    /\ lastGet.put.posts = <<P2, P1>>

----------------------------------------------------------------------------
(* Claims on plain search *)

\* C3: a searchPlain that starts after a successful fetch for the same
\* normalized key completed, no more than the TTL after it, issues no
\* upstream fetch and reports cached = true with cacheAge >= 0.
C3_SecondCallCached ==
    \A r \in RequestIds :
        req[r].priorFresh =>
            /\ req[r].pc = "done"
            /\ ~req[r].fetched
            /\ req[r].resp.cached = TRUE
            /\ req[r].resp.cacheAge >= 0

\* the second call is served from the cache, spelled differently from the
\* first and after some seconds, while another request is still fetching
C3_Witness ==
    \E r \in RequestIds :
        /\ req[r].priorFresh
        /\ req[r].pc = "done"
        /\ req[r].query = <<" ", "A", " ">>
        /\ req[r].resp.cacheAge >= 1
        /\ \E o \in RequestIds : req[o].pc = "fetching"

\* C4 (as amended): a get never returns data older than the TTL; a get that
\* finds an entry older than the TTL misses and removes the entry, swept or
\* not; the searchPlain that made it does not answer from the cache: unless
\* the rate limiter denies it, it issues a new upstream fetch, and a result
\* it returns reports cached = false.
C4_ExpiredEvictedRefetched ==
    \A r \in RequestIds :
        /\ req[r].resp.cached => req[r].resp.cacheAge * 1000 <= ttlMs
        /\ req[r].sawExpired =>
            /\ ~req[r].keptStale
            /\ req[r].pc \in {"fetching", "done", "failed", "denied"}
            /\ req[r].pc # "denied" => req[r].fetched
            /\ req[r].pc = "done" => req[r].resp.cached = FALSE

\* C4 as stated: the searchPlain that follows a get on an expired entry
\* always issues a new upstream fetch and reports cached = false.
C4_Original ==
    \A r \in RequestIds :
        req[r].sawExpired =>
            /\ ~req[r].keptStale
            /\ req[r].fetched
            /\ req[r].pc = "done" => req[r].resp.cached = FALSE

\* a search found its entry expired, refetched and answered cached = false
C4_Witness ==
    \E r \in RequestIds :
        /\ req[r].sawExpired
        /\ req[r].pc = "done"
        /\ req[r].fetched
        /\ req[r].resp.cached = FALSE

\* C5 as stated: two cache operations address the same entry exactly when
\* their normalized queries, their sorts and their time buckets are equal,
\* and a list stored for one time bucket is never returned to a search for
\* another time bucket.
C5_Original ==
    /\ \A r1, r2 \in RequestIds :
        (req[r1].pc # "idle" /\ req[r2].pc # "idle") =>
            ((key(req[r1].query, req[r1].sort) = key(req[r2].query, req[r2].sort))
                <=> (/\ trim(toLowerCase(req[r1].query)) = trim(toLowerCase(req[r2].query))
                     /\ req[r1].sort = req[r2].sort
                     /\ req[r1].time = req[r2].time))
    /\ \A r \in RequestIds :
        (req[r].pc = "done" /\ req[r].resp.cached = TRUE) =>
            req[r].servedTime = req[r].time

----------------------------------------------------------------------------
(* Claims on the post fetcher *)

\* number of elements of s that satisfy Test
CountIf(s, Test(_)) == Len(SelectSeq(s, Test))

\* C7: whatever the pages answer (failures included), the returned list has
\* at most 100 posts, is in non-increasing order of upvotes, and consists of
\* the highest-scored of the accumulated posts.
C7_Top100Sorted ==
    fetch.pc = "done" =>
        LET res == fetch.result
            all == fetch.allPosts
            k == IF Len(all) < 100 THEN Len(all) ELSE 100
        IN  /\ Len(res) <= 100
            /\ Len(res) = k
            /\ \A i \in 1..(Len(res) - 1) : res[i].upvotes >= res[i + 1].upvotes
            /\ \A i \in 1..Len(res) :
                 CountIf(res, LAMBDA p : p = res[i]) <= CountIf(all, LAMBDA p : p = res[i])
            /\ \A v \in 0..MaxUpvotes :
                 LET above == CountIf(all, LAMBDA p : p.upvotes > v)
                 IN  CountIf(res, LAMBDA p : p.upvotes > v)
                        = (IF above < k THEN above ELSE k)

\* more than 100 posts of several scores were accumulated over two pages
\* and the result was cut to 100
C7_Witness ==
    /\ fetch.pc = "done"
    /\ Len(fetch.allPosts) > 100
    /\ Len(fetch.result) = 100
    /\ fetch.result[1].upvotes > fetch.result[100].upvotes
    /\ fetch.page >= 1

\* C8 as stated: the returned list holds at most one post per identifier.
C8_Original ==
    fetch.pc = "done" =>
        \A i, j \in 1..Len(fetch.result) :
            i # j => fetch.result[i].id # fetch.result[j].id

----------------------------------------------------------------------------
(* Claims on the fan-out aggregation *)

IdsOf(posts) == {posts[i].id : i \in 1..Len(posts)}
PostsOf(posts) == {posts[i] : i \in 1..Len(posts)}

\* C9: whichever branches fail, the aggregation completes; a failed branch
\* contributes no post; the merged list holds each identifier once and its
\* posts are exactly those of the identifiers returned by the branches that
\* succeeded, each taken from such a branch.
C9_FailedBranchesSkipped ==
    agg.pc = "filtering" =>
        LET ok == {i \in 1..agg.n : agg.outcome[i] = "ok"}
            u == agg.uniquePosts
        IN  /\ \A i \in 1..agg.n : agg.outcome[i] = "failed" => agg.nested[i] = <<>>
            /\ \A i, j \in 1..Len(u) : i # j => u[i].id # u[j].id
            /\ IdsOf(u) = UNION {IdsOf(agg.nested[i]) : i \in ok}
            /\ PostsOf(u) \subseteq UNION {PostsOf(agg.nested[i]) : i \in ok}

\* three queries, the second branch failed, the other two overlap on an
\* identifier and the merged list holds both identifiers
C9_Witness ==
    /\ agg.pc = "filtering"
    /\ agg.n = 3
    /\ agg.outcome = <<"ok", "failed", "ok">>
    /\ IdsOf(agg.nested[1]) \cap IdsOf(agg.nested[3]) # {}
    /\ Len(agg.allPosts) > Len(agg.uniquePosts)
    /\ Len(agg.uniquePosts) = 2

\* the posts that are the first of their identifier in s, in order
FirstOccurrences(s) ==
    LET idx == {i \in 1..Len(s) : \A j \in 1..(i - 1) : s[j].id # s[i].id}
        f[i \in 0..Len(s)] ==
            IF i = 0 THEN <<>>
            ELSE IF i \in idx THEN Append(f[i - 1], s[i]) ELSE f[i - 1]
    IN  f[Len(s)]

\* C10 as stated: for an identifier that occurs several times in the
\* flattened list, the merged list holds one post, the first occurrence's,
\* at the first occurrence's relative position.
C10_Original ==
    agg.pc = "filtering" => agg.uniquePosts = FirstOccurrences(agg.allPosts)

----------------------------------------------------------------------------
(* Claims on the AI response handling *)

\* the score of a position under an object of entries: its last entry, 0
\* when it has none
EntryScore(items, index) ==
    LET at == {i \in 1..Len(items) : i % 2 = 1 /\ IndexOfKey(items[i]) = index}
    IN  IF at = {} THEN 0 ELSE NumOf(items[(CHOOSE i \in at : \A j \in at : j <= i) + 1])

\* C11: when the scoring response parses into a map from position index to
\* score, the filter returns exactly the input posts of score >= 6 (a
\* position missing from the map scoring 0), each with its score, ordered by
\* score descending.
C11_ScoredFilter ==
    (ai.op = "filter" /\ extractJSON(ai.content).kind = "object") =>
        LET items == extractJSON(ai.content).items
            out == ai.filtered
        IN  /\ {out[i].pos : i \in 1..Len(out)}
                  = {p \in 0..(ai.n - 1) : EntryScore(items, p) >= 6}
            /\ \A i, j \in 1..Len(out) : i # j => out[i].pos # out[j].pos
            /\ \A i \in 1..Len(out) :
                  out[i].relevanceScore = EntryScore(items, out[i].pos)
            /\ \A i \in 1..(Len(out) - 1) :
                  out[i].relevanceScore >= out[i + 1].relevanceScore

\* the map {0:2, 1:9, 2:7} over 3 posts, wrapped in prose and a code fence,
\* yields positions [1, 2]
C11_Witness ==
    /\ ai.op = "filter"
    /\ ai.n = 3
    /\ ai.content = <<"w", "F", "{", "k0", "2", "k1", "9", "k2", "7", "}", "F", "w">>
    /\ ai.filtered = <<[pos |-> 1, relevanceScore |-> 9], [pos |-> 2, relevanceScore |-> 7]>>

\* C12 as stated: for every scoring response that is not a JSON object of
\* position scores (unparsable, or JSON of another shape) the filter
\* returns the first min(20, n) input posts, in order and unscored.
C12_Original ==
    (ai.op = "filter" /\ extractJSON(ai.content).kind # "object") =>
        ai.filtered = Slice(FilterInput(ai.n), 20)

\* what each way of reading the completion yields on its own
DirectYield(content) == JSONParse(content)
FencedYield(content) == JSONParse(CodeBlock(content))
BracketYield(content) == JSONParse(Greedy(content, "[", "]"))

\* C13: when neither the direct parse, nor the fenced block, nor the
\* bracket-delimited substring of the completion is a JSON array, the
\* planner returns the one-element list holding the original query.
C13_PlannerFallback ==
    (ai.op = "plan"
        /\ DirectYield(ai.content).kind # "array"
        /\ FencedYield(ai.content).kind # "array"
        /\ BracketYield(ai.content).kind # "array") =>
            ai.queries = <<UserQuery>>

\* prose around an object, brackets that do not close into an array
C13_Witness ==
    /\ ai.op = "plan"
    /\ ai.content = <<"w", "[", "{", "}">>
    /\ ai.queries = <<UserQuery>>

\* C14: the planner returns at most 3 queries; when the completion's array
\* has more than 3 elements they are its first 3, in order.
C14_AtMostThree ==
    ai.op = "plan" =>
        /\ Len(ai.queries) <= 3
        /\ LET parsed == extractJSON(ai.content)
           IN  (parsed.kind = "array" /\ Len(parsed.items) > 3) =>
                   ai.queries = SubSeq(parsed.items, 1, 3)

\* a fenced array of four queries is cut to its first three
C14_Witness ==
    /\ ai.op = "plan"
    /\ ai.content = <<"w", "F", "[", "sa", "sb", "sb", "sa", "]", "F", "w">>
    /\ ai.queries = <<"sa", "sb", "sb">>

----------------------------------------------------------------------------
(* Claims on the retry executor *)

Failed(o) == ~(o.kind = "response" /\ o.status = 200)

\* C15: whatever the attempts end with, one execution makes at most
\* maxRetries network calls (3 for a list page, 2 for a detail fetch), makes
\* no call after a successful one, and when the last allowed attempt fails
\* it ends by throwing to the caller.
C15_BoundedAttempts ==
    retry.pc # "idle" =>
        LET n == Len(retry.outcomes)
        IN  /\ retry.maxRetries \in {3, 2}
            /\ n <= retry.maxRetries
            /\ \A i \in 1..(n - 1) : Failed(retry.outcomes[i])
            /\ (n >= 1 /\ ~Failed(retry.outcomes[n])) => retry.pc = "returned"
            /\ (n = retry.maxRetries /\ Failed(retry.outcomes[n])) => retry.pc = "thrown"
            /\ retry.pc = "returned" => (n >= 1 /\ ~Failed(retry.outcomes[n]))

\* a detail fetch: a timeout, then a 429 on the second and last attempt
C15_Witness ==
    /\ retry.pc = "thrown"
    /\ retry.maxRetries = 2
    /\ Len(retry.outcomes) = 2
    /\ retry.outcomes[1].kind = "abort"
    /\ retry.outcomes[2] = [kind |-> "response", status |-> 429]

\* C16 as stated: an attempt that ends with a status that is neither ok,
\* nor 429, nor a server error is the last network call: the failure is
\* thrown at once, with no wait after it.
C16_Original ==
    \A i \in 1..Len(retry.outcomes) :
        LET o == retry.outcomes[i]
        IN  (o.kind = "response" /\ ~ResOk(o.status)
                /\ o.status # 429 /\ o.status < 500) =>
                /\ retry.pc = "thrown"
                /\ Len(retry.outcomes) = i
                /\ Len(retry.delays) = i - 1

----------------------------------------------------------------------------
(* Claims on the failure paths of the fetcher *)

\* C17: when a page request of fetchRedditPosts throws (the executor's
\* retries are exhausted), the call does not throw: it is done, the failed
\* request is the last one it made, and its result is the posts accumulated
\* from the earlier pages, sorted by upvotes descending and cut to 100.
C17_PageErrorStopsPaging ==
    fetch.failedAt # 0 =>
        /\ fetch.pc = "done"
        /\ fetch.requests = fetch.failedAt
        /\ fetch.failedAt = fetch.page + 1
        /\ fetch.result = Slice(SortByUpvotesDesc(fetch.allPosts), 100)
        /\ Len(fetch.result) = IF Len(fetch.allPosts) < 100
                               THEN Len(fetch.allPosts) ELSE 100

\* the second page fails after the first one brought posts
C17_Witness ==
    /\ fetch.pc = "done"
    /\ fetch.failedAt = 2
    /\ Len(fetch.result) > 0

\* the bodies of the comment children that are present and not tombstones
ReplyBodies(children) ==
    LET kept == SelectSeq(children, LAMBDA c :
                    c.kind = "t1" /\ c.body \notin {"", "[deleted]", "[removed]"})
    IN  [i \in 1..Len(kept) |-> kept[i].body]

\* C18: getPostDetails ends with a string in every case: it is empty when
\* the request failed, the body is not an array of two elements, or the
\* listing is missing; otherwise it is the first (at most 10) reply bodies
\* that are not '[deleted]' or '[removed]', in upstream order, joined.
C18_DetailNeverRaises ==
    detail.pc \in {"idle", "requesting", "done"}
    /\ (detail.pc = "done" =>
          IF detail.failed \/ detail.body.shape # "thread"
          THEN detail.result = <<>>
          ELSE LET replies == ReplyBodies(detail.body.children)
                   n == IF Len(replies) < 10 THEN Len(replies) ELSE 10
               IN  /\ Len(detail.comments) <= 10
                   /\ \A i \in 1..Len(detail.comments) :
                        detail.comments[i] \notin {"[deleted]", "[removed]"}
                   /\ detail.comments = SubSeq(replies, 1, n)
                   /\ Len(detail.result) = (IF n = 0 THEN 0 ELSE 2 * n - 1)
                   /\ \A i \in 1..n : detail.result[2 * i - 1] = replies[i])

\* a thread of 12 replies with a tombstone among the first ten
C18_Witness ==
    /\ detail.pc = "done"
    /\ Len(detail.body.children) = 12
    /\ detail.body.children[2].body = "[deleted]"
    /\ Len(detail.comments) = 10

----------------------------------------------------------------------------
(* Claims on the end of a context search and on the endpoints' errors *)

\* C19 as stated: a context search that entered filtering ends with a
\* result list and no error, also when the scoring call itself failed.
C19_Original ==
    (agg.pc = "finished" /\ agg.step = "filter") =>
        /\ agg.error = ""
        /\ ~agg.data.isNull

\* C20 as stated: the response of an endpoint whose call found no API key
\* differs from its response to every other failure.
C20_Original ==
    (agg.pc = "finished" /\ agg.response.status # 200 /\ agg.cause # "nokey") =>
        LET noKey == [cause |-> "nokey", content |-> <<>>]
        IN  agg.response # (IF agg.step = "intent"
                            THEN IntentRoute(noKey) ELSE FilterRoute(noKey))

----------------------------------------------------------------------------
(* Claims on retry delays and on paging *)

\* the failure classes the executor is meant to retry
Retryable(o) ==
    \/ o.kind \in {"abort", "neterr"}
    \/ o.kind = "response" /\ (o.status = 429 \/ o.status >= 500)

\* C21 as stated: there is one base such that the wait after attempt k
\* (k from 0) that failed with a retryable class is base * 2^k.
C21_Original ==
    \E base \in {500, 1000, 1500, 2000, 3000} :
        \A k \in 1..Len(retry.delays) :
            Retryable(retry.outcomes[k]) =>
                retry.delays[k] = base * Pow2(k - 1)

\* C22: one fetchRedditPosts call makes at most 4 page requests, and it is
\* about to make another one only if the last page had items and a
\* next-page cursor and fewer than 100 posts are accumulated.
C22_PagingStops ==
    /\ fetch.requests <= 4
    /\ (fetch.pc = "paging" /\ fetch.requests > 0) =>
          /\ fetch.requests < 4
          /\ fetch.failedAt = 0
          /\ fetch.lastCount > 0
          /\ fetch.after
          /\ Len(fetch.allPosts) < 100

\* four pages were requested and the ceiling ended the paging
C22_Witness ==
    /\ fetch.pc = "done"
    /\ fetch.requests = 4
    /\ fetch.failedAt = 0
    /\ fetch.after
    /\ fetch.lastCount > 0
    /\ Len(fetch.allPosts) < 100

\* C23 as stated: a '15d' fetch asks upstream for 'month' and keeps exactly
\* the children that are not older than 15 days at the start of the fetch.
C23_Original ==
    fetch.time = "15d" =>
        /\ fetch.tParam = "month"
        /\ Len(fetch.allPosts) = fetch.fresh
        /\ \A i \in 1..Len(fetch.allPosts) :
             fetch.allPosts[i].created >= 0 - FifteenDays

\* C24: every page request but the first is preceded by an inter-page
\* delay of at least 1000 ms, and none is taken after the last request.
C24_InterPageDelay ==
    /\ \A i \in 1..Len(fetch.waits) : fetch.waits[i] >= 1000
    /\ fetch.pc = "paging" => Len(fetch.waits) = fetch.requests
    /\ (fetch.pc = "done" /\ fetch.requests > 0) =>
            Len(fetch.waits) = fetch.requests - 1

\* three pages were requested, the third one failed
C24_Witness ==
    /\ fetch.pc = "done"
    /\ fetch.requests = 3
    /\ fetch.failedAt = 3
    /\ Len(fetch.waits) = 2

----------------------------------------------------------------------------
(* Claims on the join of the fan-out and on the end of fetching *)

\* number of posts of the branches before branch i
RECURSIVE OffsetOf(_, _)
OffsetOf(nested, i) ==
    IF i <= 1 THEN 0 ELSE OffsetOf(nested, i - 1) + Len(nested[i - 1])

\* C25: filtering starts only when every branch has settled, and the
\* aggregated list is the branches' results laid out in query order,
\* whatever the order in which the branches settled.
C25_JoinInQueryOrder ==
    agg.pc = "filtering" =>
        /\ \A i \in 1..agg.n : agg.outcome[i] \in {"ok", "failed"}
        /\ Len(agg.allPosts) = OffsetOf(agg.nested, agg.n + 1)
        /\ \A i \in 1..agg.n : \A k \in 1..Len(agg.nested[i]) :
             agg.allPosts[OffsetOf(agg.nested, i) + k] = agg.nested[i][k]
        /\ agg.uniquePosts = UniqueById(agg.allPosts)

\* the second branch settled before the first, with different posts
C25_Witness ==
    /\ agg.pc = "filtering"
    /\ agg.n = 2
    /\ agg.inverted
    /\ Len(agg.nested[1]) > 0
    /\ Len(agg.nested[2]) > 0
    /\ agg.nested[1][1].id # agg.nested[2][1].id

\* C26 as stated: when every branch of a search failed, the search does not
\* go on to filtering.
C26_Original ==
    (agg.n > 0 /\ \A i \in 1..agg.n : agg.outcome[i] = "failed") =>
        agg.pc # "filtering"

----------------------------------------------------------------------------
(* Claims on the status of the hook *)

\* C27 as stated: once a search has finished (isLoading = false) the status
\* rests at idle or completed; no later callback moves it to analyzing,
\* fetching or filtering.
C27_Original ==
    ~progress.state.isLoading => progress.state.status \in {"idle", "completed"}

\* C28 as stated: when all the calls of search() that overlapped have
\* finished, the recorded data and error are those of the call that
\* started last.
C28_Original ==
    (hook.started >= 2 /\ \A k \in 1..hook.started : hook.pc[k] = "finished") =>
        /\ hook.state.status = "idle"
        /\ ~hook.state.isLoading
        /\ hook.state.data \in {0, hook.started}
        /\ hook.state.errorOf \in {0, hook.started}

----------------------------------------------------------------------------
(* Claims on the creation of cache entries *)

\* C29 as stated: no cache fill of a searchPlain replaces an entry that is
\* younger than the TTL.
C29_Original ==
    \A r \in RequestIds : ~req[r].replacedFresh

\* C30 as stated: every entry of the cache was created by a successful
\* fetch, and no searchPlain is answered from the cache with the result of
\* a failed one.
C30_Original ==
    /\ \A k \in DOMAIN cache : lastPut[k].ok
    /\ \A r \in RequestIds :
        (req[r].pc = "done" /\ req[r].resp.cached = TRUE) =>
            lastPut[key(req[r].query, req[r].sort)].ok

\* C32: a sweep at time t removes exactly the identities whose last admitted
\* request is at or before t - 10*W and leaves every other entry unchanged
\* (as stated; the code keeps an identity idle for exactly 10*W)
C32_Original ==
    [][(limits' # limits /\ UNCHANGED <<now, rlLast, admitLog>>) =>
        \A ip \in DOMAIN limits :
            /\ ip \notin DOMAIN limits' <=>
                    limits[ip].lastRequest <= now - 10 * windowMs
            /\ ip \in DOMAIN limits' => limits'[ip] = limits[ip]]_vars

\* C35: a denied check changes no entry of the limiter, and the instant at
\* which the identity is next admitted stays one window after its last
\* admitted check
C35_DeniedLeavesState ==
    [][(rlLast' # rlLast /\ ~rlLast'.allowed) =>
        /\ limits' = limits
        /\ rlLast'.at + rlLast'.retryAfter = rlLast'.prevAdmit + windowMs]_vars

\* two denials in a row of one identity, the other identity holding an entry
C35_Witness ==
    /\ rlLast.at # None /\ ~rlLast.allowed
    /\ rlLast.hint # None
    /\ rlLast.at > rlLast.prevAdmit + 1
    /\ limits[rlLast.ip] = [lastRequest |-> rlLast.prevAdmit, requestCount |-> 1]
    /\ DOMAIN limits = IPs

C37_SweepInvisible ==
    rlLast.at # None =>
        /\ rlLast.allowed = rlLast.plain.allowed
        /\ rlLast.retryAfter = rlLast.plain.retryAfter

\* a check of an identity that was admitted before and whose entry the sweep
\* has removed, the other identity's entry being removed as well
C37_Witness ==
    /\ rlLast.at # None /\ rlLast.allowed
    /\ rlLast.prevAdmit # None
    /\ rlLast.at - rlLast.prevAdmit > 10 * windowMs
    /\ \E ip \in DOMAIN unswept : ip \notin DOMAIN limits

\* C31 as stated: a fetch is issued only after a miss and an admission, a
\* request served from the cache neither calls nor changes the limiter, and
\* a denied request issues no fetch, leaves the cache as it was and carries
\* the retry-after hint
C31_Original ==
    \A r \in RequestIds :
        /\ req[r].fetched => (req[r].missed /\ req[r].admitted)
        /\ (req[r].pc = "done" /\ req[r].resp.cached = TRUE) =>
                (~req[r].consulted /\ req[r].limitsKept /\ ~req[r].fetched)
        /\ req[r].pc = "denied" =>
                /\ ~req[r].fetched
                /\ req[r].retryAfter \in 1..windowMs
                /\ req[r].evicted = {} /\ req[r].othersKept

\* C31: as above, except that the lookup of a denied request may have
\* removed the expired entry of its own key; it changes no other entry and
\* fills nothing
C31_FetchAfterMissAndAdmission ==
    \A r \in RequestIds :
        /\ req[r].fetched => (req[r].missed /\ req[r].admitted)
        /\ (req[r].pc = "done" /\ req[r].resp.cached = TRUE) =>
                (~req[r].consulted /\ req[r].limitsKept /\ ~req[r].fetched)
        /\ req[r].pc = "denied" =>
                /\ ~req[r].fetched
                /\ req[r].missed /\ req[r].consulted /\ req[r].limitsKept
                /\ req[r].retryAfter \in 1..windowMs
                /\ req[r].othersKept
                /\ req[r].evicted \subseteq {key(req[r].query, req[r].sort)}
                /\ req[r].evicted # {} => req[r].sawExpired

\* one request is denied after its lookup removed the expired entry of its
\* key, while the other one is served from the cache
C31_Witness ==
    \E r, o \in RequestIds :
        /\ req[r].pc = "denied" /\ req[r].evicted # {}
        /\ req[r].retryAfter > 0
        /\ req[o].pc = "done" /\ req[o].resp.cached = TRUE

\* C34: the age a hit reports is floor((now - creation instant) / 1000) at
\* the instant of that get; a later hit on the same entry reports an age that
\* is at least the earlier one, each matching its own instant; and a hit
\* leaves the entry's creation instant and stored data as they were
C34_AgeAtGet ==
    (lastGet.at # None /\ lastGet.hit) =>
        LET ts == lastGet.entry.timestamp
            a2 == lastGet.data.cacheAge
            a1 == lastGet.prev.age
        IN  /\ 1000 * a2 <= lastGet.at - ts
            /\ lastGet.at - ts < 1000 * (a2 + 1)
            /\ lastGet.after = lastGet.entry
            /\ lastGet.prev.at # None =>
                    /\ lastGet.prev.at <= lastGet.at
                    /\ a1 <= a2
                    /\ 1000 * a1 <= lastGet.prev.at - ts
                    /\ lastGet.prev.at - ts < 1000 * (a1 + 1)

\* two hits on one entry, the second later and with a larger age, at an
\* instant that is not a whole number of seconds after the creation
C34_Witness ==
    /\ lastGet.at # None /\ lastGet.hit
    /\ lastGet.prev.at # None
    /\ lastGet.prev.at < lastGet.at
    /\ lastGet.prev.age < lastGet.data.cacheAge
    /\ (lastGet.at - lastGet.entry.timestamp) % 1000 # 0
    /\ lastGet.entry.timestamp > 0

\* C33 as stated: every post the filter returns on its scored path carries
\* an integer relevance score in 6..10, whatever the scoring response holds
C33_Original ==
    (ai.op = "filter" /\ ~Falsy(extractJSON(ai.content))) =>
        \A i \in 1..Len(ai.filtered) : ai.filtered[i].relevanceScore \in 6..10

\* C39 as stated: the planner's result holds at least one query for every
\* completion, one that parses to an empty array included
C39_Original ==
    ai.op = "plan" => Len(ai.queries) >= 1

----------------------------------------------------------------------------
(* Claims on the fetcher over the retry executor *)

\* C38: one fetchRedditPosts call makes at most 4 page requests and at most
\* 4 * 3 = 12 upstream requests, and once started it always ends by
\* returning a list, whatever each upstream request does
C38_TerminatesWithinBudget ==
    /\ [](/\ upstream.total <= maxPages * 3
          /\ fetch.requests <= maxPages
          /\ fetch.pc = "done" => DOMAIN fetch.result = 1..Len(fetch.result))
    /\ (fetch.pc = "paging") ~> (fetch.pc = "done")

\* a call that ended after 4 pages of 3 attempts each
C38_Witness ==
    /\ fetch.pc = "done"
    /\ fetch.requests = maxPages
    /\ upstream.total = 12
    /\ Len(fetch.result) >= 1

====
